---- MODULE Spec2Model ----
(***************************************************************************)
(* network2tikz: the attribute normalisation pipeline of                   *)
(* TikzNetworkDrawer (drawing.py) and the Layout options (layout.py).      *)
(*                                                                         *)
(* Python values are records [t, s, n, items, keys]: t is the Python type  *)
(* name, s the payload of a str, n the payload of a number (a float is     *)
(* kept in ten-thousandths), items the elements of a tuple / list / set or the *)
(* values of a dict, keys the keys of a dict.  A Python dict (insertion    *)
(* ordered) is a sequence of entries [k, v] with pairwise distinct k.      *)
(* Identifiers of nodes and edges are strings; the tuple (u, v) used as an *)
(* edge id is written "(u,v)".                                             *)
(***************************************************************************)
EXTENDS Integers, Sequences, FiniteSets, TLC

VARIABLES
    pc,     \* position of the caller: "new", "drawn", "failed", "static",
            \* "layout"
    self,   \* the TikzNetworkDrawer object: a record of its attributes
            \*   network            the network object handed to the constructor
            \*   attributes         the keyword arguments as given
            \*   nodes              list of node ids
            \*   edges              OrderedDict edge id -> (u, v)
            \*   directed
            \*   adjacency_matrix   None or a sparse matrix (its shape)
            \*   node_attributes, edge_attributes, general_attributes
            \*   layout_options     the options held by the Layout object built in draw
            \*   edge_drawer        one record per TikzEdgeDrawer
            \*   exc                the exception that ended the constructor, or "none"
            \*   engine             that Layout object as generate_layout left it
            \*   canvas             the Canvas object
            \*   layout             node id -> coordinate
            \*   angle_computed     the edges whose bend angle curve computed
            \*   node_drawer        one record per TikzNodeDrawer
            \*   env                env as the constructor left it
            \* or, where the layout is used on its own, the Layout object
    call,   \* the last method call: [op, arg]
    ret,    \* what that call returned: [exc, val]
    env     \* what lies outside the objects:
            \*   np_random   the position of numpy's global random stream
            \*   forces      the force field of each coming iteration of a layout

vars == <<pc, self, call, ret, env>>

----------------------------------------------------------------------------
(* Bounds of the model. *)
MaxNodes == 2       \* nodes of a network
MaxEdges == 2       \* edges of a network
MaxListLen == 3     \* elements of a list given as a style value
MaxKwds == 2        \* keyword arguments of one rename_attributes call
MaxDrawKwds == 2    \* edge keyword arguments of one constructor call
MaxLayoutKwds == 1  \* layout options of one constructor call
MaxIterations == 2  \* iterations of the force-directed layout

----------------------------------------------------------------------------
(* Python values. *)
Scalar(t, s, n) == [t |-> t, s |-> s, n |-> n, items |-> <<>>, keys |-> <<>>]
None == Scalar("NoneType", "", 0)
PyStr(s) == Scalar("str", s, 0)
PyInt(n) == Scalar("int", "", n)
PyFloat(n) == Scalar("float", "", n)
PyBool(b) == Scalar("bool", "", IF b THEN 1 ELSE 0)
PyTuple(items) == [t |-> "tuple", s |-> "", n |-> 0, items |-> items, keys |-> <<>>]
PyList(items) == [t |-> "list", s |-> "", n |-> 0, items |-> items, keys |-> <<>>]
PySet(items) == [t |-> "set", s |-> "", n |-> 0, items |-> items, keys |-> <<>>]
PyDict(keys, items) == [t |-> "dict", s |-> "", n |-> 0, items |-> items, keys |-> keys]

\* isinstance(value, cls); bool is a subclass of int.
IsInstance(value, cls) ==
    \/ value.t = cls
    \/ cls = "int" /\ value.t = "bool"

\* The tuple (u, v) as a dictionary key.
PairId(u, v) == "(" \o u \o "," \o v \o ")"

----------------------------------------------------------------------------
(* Python dict: insertion ordered, one entry per key. *)
DictKeys(d) == {d[i].k : i \in 1..Len(d)}
DictHas(d, k) == \E i \in 1..Len(d) : d[i].k = k
DictIndex(d, k) == CHOOSE i \in 1..Len(d) : d[i].k = k
DictGet(d, k) == d[DictIndex(d, k)].v
DictGetDefault(d, k, default) == IF DictHas(d, k) THEN DictGet(d, k) ELSE default
\* d[k] = v: overwrite in place, or append a new entry
DictSet(d, k, v) ==
    IF DictHas(d, k)
    THEN [d EXCEPT ![DictIndex(d, k)] = [k |-> k, v |-> v]]
    ELSE Append(d, [k |-> k, v |-> v])
DictDel(d, k) == SelectSeq(d, LAMBDA e : e.k # k)
\* {**d1, **d2}
RECURSIVE DictUpdate(_, _)
DictUpdate(d1, d2) ==
    IF d2 = <<>> THEN d1
    ELSE DictUpdate(DictSet(d1, Head(d2).k, Head(d2).v), Tail(d2))

\* a returned value, and a raised exception
Return(val) == [exc |-> "none", val |-> val]
Raise(e) == [exc |-> e, val |-> <<>>]

----------------------------------------------------------------------------
(* TikzNetworkDrawer.format_node_value / format_edge_value *)

\* as ListItem, but a short list is cycled through
ListItem_Cycled(value, i) ==
    IF value.items = <<>> THEN None
    ELSE value.items[((i - 1) % Len(value.items)) + 1]

\* value[i] of a list, 0-based in Python; IndexError is caught and gives None
ListItem(value, i) == IF i <= Len(value.items) THEN value.items[i] ELSE None

\* value[n] of a dict; KeyError is caught and gives None
DictItem(value, n) ==
    IF \E j \in 1..Len(value.keys) : value.keys[j] = n
    THEN value.items[CHOOSE j \in 1..Len(value.keys) : value.keys[j] = n]
    ELSE None

RECURSIVE BroadcastLoop(_, _, _, _)
BroadcastLoop(ents, value, i, acc) ==
    IF i > Len(ents) THEN acc
    ELSE BroadcastLoop(ents, value, i + 1, DictSet(acc, ents[i], value))

RECURSIVE ListLoop(_, _, _, _)
ListLoop(ents, value, i, acc) ==
    IF i > Len(ents) THEN acc
    ELSE ListLoop(ents, value, i + 1, DictSet(acc, ents[i], ListItem(value, i)))

\* as DictLoop, but iterating over the dict given instead of the entities
DictLoop_OverValue(ents, value, i, acc) ==
    [j \in 1..Len(value.keys) |-> [k |-> value.keys[j], v |-> value.items[j]]]

RECURSIVE DictLoop(_, _, _, _)
DictLoop(ents, value, i, acc) ==
    IF i > Len(ents) THEN acc
    ELSE DictLoop(ents, value, i + 1, DictSet(acc, ents[i], DictItem(value, ents[i])))

\* as format_node_value, but a tuple is not taken as one value
format_node_value_NoTuple(self_nodes, value) ==
    IF \/ IsInstance(value, "str") \/ IsInstance(value, "int")
       \/ IsInstance(value, "float")
    THEN Return(BroadcastLoop(self_nodes, value, 1, <<>>))
    ELSE IF IsInstance(value, "list")
    THEN Return(ListLoop(self_nodes, value, 1, <<>>))
    ELSE IF IsInstance(value, "dict")
    THEN Return(DictLoop(self_nodes, value, 1, <<>>))
    ELSE Raise("CnetError")

format_node_value(self_nodes, value) ==
    IF \/ IsInstance(value, "str") \/ IsInstance(value, "int")
       \/ IsInstance(value, "float") \/ IsInstance(value, "tuple")
    THEN Return(BroadcastLoop(self_nodes, value, 1, <<>>))
    ELSE IF IsInstance(value, "list")
    THEN Return(ListLoop(self_nodes, value, 1, <<>>))
    ELSE IF IsInstance(value, "dict")
    THEN Return(DictLoop(self_nodes, value, 1, <<>>))
    ELSE Raise("CnetError")

\* iterating self.edges yields its keys in insertion order
EdgeIds(self_edges) == [i \in 1..Len(self_edges) |-> self_edges[i].k]

\* as format_edge_value, but an unsupported shape gives an empty map
format_edge_value_NoRaise(self_edges, value) ==
    IF \/ IsInstance(value, "str") \/ IsInstance(value, "int")
       \/ IsInstance(value, "float") \/ IsInstance(value, "bool")
       \/ IsInstance(value, "tuple")
    THEN Return(BroadcastLoop(EdgeIds(self_edges), value, 1, <<>>))
    ELSE IF IsInstance(value, "list")
    THEN Return(ListLoop(EdgeIds(self_edges), value, 1, <<>>))
    ELSE IF IsInstance(value, "dict")
    THEN Return(DictLoop(EdgeIds(self_edges), value, 1, <<>>))
    ELSE Return(<<>>)

format_edge_value(self_edges, value) ==
    IF \/ IsInstance(value, "str") \/ IsInstance(value, "int")
       \/ IsInstance(value, "float") \/ IsInstance(value, "bool")
       \/ IsInstance(value, "tuple")
    THEN Return(BroadcastLoop(EdgeIds(self_edges), value, 1, <<>>))
    ELSE IF IsInstance(value, "list")
    THEN Return(ListLoop(EdgeIds(self_edges), value, 1, <<>>))
    ELSE IF IsInstance(value, "dict")
    THEN Return(DictLoop(EdgeIds(self_edges), value, 1, <<>>))
    ELSE Raise("CnetError")

----------------------------------------------------------------------------
(* Python str operations used by rename_attributes and draw *)

\* name in key
Contains(key, name) ==
    \E i \in 1..(Len(key) - Len(name) + 1) : SubSeq(key, i, i + Len(name) - 1) = name

\* s[0]
FirstChar(s) == SubSeq(s, 1, 1)

\* s.replace(old, new): every non-overlapping occurrence, left to right
RECURSIVE Replace(_, _, _)
Replace(s, old, new) ==
    IF Len(s) < Len(old) THEN s
    ELSE IF SubSeq(s, 1, Len(old)) = old
    THEN new \o Replace(SubSeq(s, Len(old) + 1, Len(s)), old, new)
    ELSE SubSeq(s, 1, 1) \o Replace(SubSeq(s, 2, Len(s)), old, new)

----------------------------------------------------------------------------
(* TikzNetworkDrawer.rename_attributes *)

names ==
    << [attr |-> "node_",   name_list |-> <<"vertex_", "v_", "n_">>],
       [attr |-> "edge_",   name_list |-> <<"edge_", "link_", "l_", "e_">>],
       [attr |-> "margins", name_list |-> <<"margin">>],
       [attr |-> "canvas",  name_list |-> <<"bbox", "figure_size">>],
       [attr |-> "units",   name_list |-> <<"units", "unit">>] >>

\* if name in key and name[0] == key[0]
NameMatches(name, key) == Contains(key, name) /\ FirstChar(name) = FirstChar(key)

\* for name in name_list: ... break -- the first name that matches, 0 if none
FirstMatch(name_list, key) ==
    IF \E m \in 1..Len(name_list) : NameMatches(name_list[m], key)
    THEN CHOOSE m \in 1..Len(name_list) :
            /\ NameMatches(name_list[m], key)
            /\ \A j \in 1..(m - 1) : ~NameMatches(name_list[j], key)
    ELSE 0

\* for attr, name_list in names.items(): ...   acc = [new_kwds, del_keys]
RECURSIVE RenameAttrLoop(_, _, _, _)
RenameAttrLoop(key, value, a, acc) ==
    IF a > Len(names) THEN acc
    ELSE LET m == FirstMatch(names[a].name_list, key)
         IN  RenameAttrLoop(key, value, a + 1,
                IF m = 0 THEN acc
                ELSE [new_kwds |-> DictSet(acc.new_kwds,
                                      Replace(key, names[a].name_list[m], names[a].attr),
                                      value),
                      del_keys |-> Append(acc.del_keys, key)])

\* for key, value in kwds.items(): ...
RECURSIVE RenameKeyLoop(_, _, _)
RenameKeyLoop(kwds, i, acc) ==
    IF i > Len(kwds) THEN acc
    ELSE RenameKeyLoop(kwds, i + 1, RenameAttrLoop(kwds[i].k, kwds[i].v, 1, acc))

\* for key in del_keys: del kwds[key]   (KeyError when the key is gone)
RECURSIVE DeleteLoop(_, _)
DeleteLoop(kwds, del_keys) ==
    IF del_keys = <<>> THEN Return(kwds)
    ELSE IF ~DictHas(kwds, Head(del_keys)) THEN Raise("KeyError")
    ELSE DeleteLoop(DictDel(kwds, Head(del_keys)), Tail(del_keys))

rename_attributes(kwds) ==
    LET acc == RenameKeyLoop(kwds, 1, [new_kwds |-> <<>>, del_keys |-> <<>>])
        rest == DeleteLoop(kwds, acc.del_keys)
    IN  IF rest.exc # "none" THEN rest
        ELSE Return(DictUpdate(acc.new_kwds, rest.val))

----------------------------------------------------------------------------
(* TikzNetworkDrawer.__init__: the drawer object is a record d *)

\* an adjacency matrix is held by its shape: the forces its weights give
\* are an input of the layout (see Forces)
NoMatrix == [kind |-> "None", rows |-> 0, cols |-> 0]
SparseMatrix(rows, cols) == [kind |-> "sparse", rows |-> rows, cols |-> cols]

\* the canvas of a drawer that has not drawn yet
NoCanvas == [width |-> 0, height |-> 0, margins |-> None, node_sizes |-> None]

NoLayout ==
    [layout_type |-> None, k |-> None, fixed |-> None, iterations |-> None,
     threshold |-> None, weight |-> None, dimension |-> None, seed |-> None,
     positions |-> None]

\* lines 79-90: initialize variables
NewDrawer(net, kwds) ==
    [network |-> net, attributes |-> kwds, nodes |-> <<>>, edges |-> <<>>,
     directed |-> FALSE, adjacency_matrix |-> NoMatrix,
     node_attributes |-> <<>>, edge_attributes |-> <<>>,
     general_attributes |-> <<>>, layout_options |-> NoLayout,
     engine |-> NoLayout, canvas |-> NoCanvas, layout |-> <<>>,
     angle_computed |-> <<>>, node_drawer |-> <<>>,
     edge_drawer |-> <<>>, env |-> env, exc |-> "none"]

\* _layout = isinstance(kwds.get('layout', None), str)
LayoutIsStr(kwds) == IsInstance(DictGetDefault(kwds, "layout", None), "str")

\* the key under which __init__ stores the i-th edge of the network
EdgeKey(kind, es, i) ==
    IF kind = "cnet" THEN es[i].id
    ELSE IF kind = "igraph" THEN ToString(i - 1)
    ELSE PairId(es[i].u, es[i].v)

\* for e in ...: self.edges[key] = (u, v)
RECURSIVE EdgeLoop(_, _, _, _)
EdgeLoop(kind, es, i, acc) ==
    IF i > Len(es) THEN acc
    ELSE EdgeLoop(kind, es, i + 1,
                  DictSet(acc, EdgeKey(kind, es, i), <<es[i].u, es[i].v>>))

Ingest(d) ==
    LET net == d.network
        layoutStr == LayoutIsStr(d.attributes)
        withEdges == [d EXCEPT !.edges = EdgeLoop(net.kind, net.edges, 1, <<>>)]
    IN  IF net.kind = "cnet" THEN
            [withEdges EXCEPT !.nodes = net.nodes, !.directed = net.directed,
                !.adjacency_matrix = IF layoutStr
                                     THEN SparseMatrix(Len(net.nodes), Len(net.nodes))
                                     ELSE NoMatrix]
        ELSE IF net.kind = "networkx" THEN
            \* the adjacency matrix is bound to a local name only
            [withEdges EXCEPT !.nodes = net.nodes, !.directed = net.directed]
        ELSE IF net.kind = "igraph" THEN
            [withEdges EXCEPT
                !.nodes = [i \in 1..Len(net.nodes) |-> ToString(i - 1)],
                !.directed = net.directed]
        ELSE IF net.kind = "pathpy" THEN
            \* _w is bound only under "if _layout"
            IF layoutStr
            THEN [withEdges EXCEPT !.nodes = net.nodes, !.directed = net.directed]
            ELSE [withEdges EXCEPT !.nodes = net.nodes, !.directed = net.directed,
                                   !.exc = "UnboundLocalError"]
        ELSE IF net.kind = "tuple" THEN
            [withEdges EXCEPT !.nodes = net.nodes]
        ELSE \* CnetNotImplemented is not imported by drawing.py
            [d EXCEPT !.exc = "NameError"]

----------------------------------------------------------------------------
(* TikzNetworkDrawer.draw *)

\* a resolved attribute map as a Python value
AsPyDict(m) == PyDict([i \in 1..Len(m) |-> m[i].k], [i \in 1..Len(m) |-> m[i].v])

\* the body of "for key, value in kwds.items()"
DispatchKey(d, key, value) ==
    LET nv == format_node_value(d.nodes, value)
        ev == format_edge_value(d.edges, value)
    IN  IF Contains(key, "node_") THEN
            IF nv.exc # "none" THEN [d EXCEPT !.exc = nv.exc]
            ELSE [d EXCEPT !.node_attributes = DictSet(@, key, nv.val)]
        ELSE IF Contains(key, "edge_") THEN
            IF ev.exc # "none" THEN [d EXCEPT !.exc = ev.exc]
            ELSE [d EXCEPT !.edge_attributes = DictSet(@, key, ev.val)]
        ELSE IF Contains(key, "fixed") \/ Contains(key, "positions") THEN
            IF nv.exc # "none" THEN [d EXCEPT !.exc = nv.exc]
            ELSE [d EXCEPT !.general_attributes = DictSet(@, key, AsPyDict(nv.val))]
        ELSE IF Contains(key, "weight") THEN
            IF ev.exc # "none" THEN [d EXCEPT !.exc = ev.exc]
            ELSE [d EXCEPT !.general_attributes = DictSet(@, key, AsPyDict(ev.val))]
        ELSE [d EXCEPT !.general_attributes = DictSet(@, key, value)]

RECURSIVE DispatchLoop(_, _, _)
DispatchLoop(d, kwds, i) ==
    IF i > Len(kwds) \/ d.exc # "none" THEN d
    ELSE DispatchLoop(DispatchKey(d, kwds[i].k, kwds[i].v), kwds, i + 1)

\* lines 206-229: rename the attributes and assign them to nodes, edges or
\* the general dictionary
AssignAttributes(d) ==
    LET kwds == rename_attributes(d.attributes)
    IN  IF kwds.exc # "none" THEN [d EXCEPT !.exc = kwds.exc]
        ELSE DispatchLoop(d, kwds.val, 1)

\* as DefaultDirected, but without looking for a given edge_directed
DefaultDirected_Always(d) ==
    IF d.directed
    THEN [d EXCEPT !.edge_attributes =
             DictSet(@, "edge_directed", format_edge_value(d.edges, PyBool(TRUE)).val)]
    ELSE d

\* lines 231-234: a directed network with no edge_directed given; a value
\* held by edge_attributes is a map and never None
DefaultDirected(d) ==
    IF d.directed /\ ~DictHas(d.edge_attributes, "edge_directed")
    THEN [d EXCEPT !.edge_attributes =
             DictSet(@, "edge_directed", format_edge_value(d.edges, PyBool(TRUE)).val)]
    ELSE d

----------------------------------------------------------------------------
(* Numbers.  A Python float is held in ten-thousandths (PyFloat(5000) is   *)
(* 0.5), and arithmetic on floats is fixed-point arithmetic on that scale. *)

\* DIGITS of drawing.py
DIGITS == 3

Abs(x) == IF x < 0 THEN -x ELSE x
Sign(x) == IF x < 0 THEN -1 ELSE IF x > 0 THEN 1 ELSE 0

\* a / b rounded to the nearest integer, b > 0
DivRound(a, b) ==
    IF a >= 0 THEN (2 * a + b) \div (2 * b) ELSE -((2 * (-a) + b) \div (2 * b))

\* isinstance(v, int) or isinstance(v, float)
IsNumber(v) == IsInstance(v, "int") \/ IsInstance(v, "float")

\* the value of a number in ten-thousandths
Tenthousandths(v) == IF v.t = "float" THEN v.n ELSE v.n * 10000

\* round(x, DIGITS) of a float x
RoundDigits(x) == PyFloat(DivRound(x.n, 10) * 10)

\* the decimals of str(float), without trailing zeros
RECURSIVE FractionStr(_, _)
FractionStr(frac, width) ==
    IF width = 1 \/ frac % 10 # 0
    THEN (IF width > Len(ToString(frac))
          THEN SubSeq("0000", 1, width - Len(ToString(frac)))
          ELSE "") \o ToString(frac)
    ELSE FractionStr(frac \div 10, width - 1)

\* str(x) of a float x
FloatStr(x) ==
    (IF x.n < 0 THEN "-" ELSE "")
        \o ToString(Abs(x.n) \div 10000) \o "." \o FractionStr(Abs(x.n) % 10000, 4)

----------------------------------------------------------------------------
(* UnitConverter (units.py): the value scaled by the factor from the input *)
(* unit to centimetres and from centimetres to the output unit             *)

\* one unit in centimetres, as the fraction num / den
UnitInCm ==
    [px |-> [num |-> 254, den |-> 9600], pt |-> [num |-> 254, den |-> 7200],
     mm |-> [num |-> 1, den |-> 10],     cm |-> [num |-> 1, den |-> 1]]

KnownUnit(u) == u.t = "str" /\ u.s \in DOMAIN UnitInCm

\* UnitConverter(input_unit, output_unit)
UnitConverter(input_unit, output_unit) ==
    IF KnownUnit(input_unit) /\ KnownUnit(output_unit)
    THEN Return([input_unit |-> input_unit.s, output_unit |-> output_unit.s])
    ELSE Raise("CnetError")

\* the greatest common divisor of two positive integers
RECURSIVE GCD(_, _)
GCD(a, b) == IF b = 0 THEN a ELSE GCD(b, a % b)

\* the factor from one unit to another, as a fraction in lowest terms
UnitFactor(input_unit, output_unit) ==
    LET num == UnitInCm[input_unit].num * UnitInCm[output_unit].den
        den == UnitInCm[input_unit].den * UnitInCm[output_unit].num
    IN  [num |-> num \div GCD(num, den), den |-> den \div GCD(num, den)]

\* converter(value)
Convert(converter, value) ==
    IF ~IsNumber(value) THEN Raise("TypeError")
    ELSE LET factor == UnitFactor(converter.input_unit, converter.output_unit)
         IN  Return(PyFloat(DivRound(Tenthousandths(value) * factor.num, factor.den)))

----------------------------------------------------------------------------
(* TikzNetworkDrawer.convert_units *)

\* the unit table: the attribute families and what is done to their numbers
UnitTable ==
    << [bucket |-> "node", key |-> "node_size",           rule |-> "cm"],
       [bucket |-> "node", key |-> "node_label_distance", rule |-> "cm"],
       [bucket |-> "node", key |-> "node_label_size",     rule |-> "font"],
       [bucket |-> "edge", key |-> "edge_arrow_size",     rule |-> "cm"],
       [bucket |-> "edge", key |-> "edge_arrow_width",    rule |-> "cm"],
       [bucket |-> "edge", key |-> "edge_width",          rule |-> "pt"],
       [bucket |-> "edge", key |-> "edge_loop_size",      rule |-> "cm_str"],
       [bucket |-> "edge", key |-> "edge_label_size",     rule |-> "font"] >>

\* what the body of "if isinstance(v, int) or isinstance(v, float)" assigns
ConvertNumber(rule, unit2cm, unit2pt, v) ==
    IF rule = "cm" THEN Convert(unit2cm, v).val
    ELSE IF rule = "pt" THEN Convert(unit2pt, v).val
    ELSE IF rule = "font"
    THEN RoundDigits(PyFloat(DivRound(Convert(unit2pt, v).val.n, 7)))
    ELSE PyStr(FloatStr(Convert(unit2cm, v).val) \o "cm")

\* for k, v in attributes[key].items(): _attr[k] = converted v, or v
ConvertMap(rule, unit2cm, unit2pt, attr_map) ==
    [i \in 1..Len(attr_map) |->
        [k |-> attr_map[i].k,
         v |-> IF IsNumber(attr_map[i].v)
               THEN ConvertNumber(rule, unit2cm, unit2pt, attr_map[i].v)
               ELSE attr_map[i].v]]

\* the loops over the node and edge families, lines 297-356
RECURSIVE ConvertFamilies(_, _, _, _)
ConvertFamilies(d, unit2cm, unit2pt, i) ==
    IF i > Len(UnitTable) THEN d
    ELSE LET row == UnitTable[i]
             attrs == IF row.bucket = "node" THEN d.node_attributes ELSE d.edge_attributes
             done == IF DictHas(attrs, row.key)
                     THEN DictSet(attrs, row.key,
                                  ConvertMap(row.rule, unit2cm, unit2pt, DictGet(attrs, row.key)))
                     ELSE attrs
         IN  ConvertFamilies(IF row.bucket = "node"
                             THEN [d EXCEPT !.node_attributes = done]
                             ELSE [d EXCEPT !.edge_attributes = done],
                             unit2cm, unit2pt, i + 1)

\* lines 358-361: w, h = canvas; canvas = (unit2cm(w), unit2cm(h))
ConvertCanvas(d, unit2cm) ==
    IF ~DictHas(d.general_attributes, "canvas") THEN d
    ELSE LET canvas == DictGet(d.general_attributes, "canvas")
         IN  IF canvas.t \notin {"tuple", "list"} THEN [d EXCEPT !.exc = "TypeError"]
             ELSE IF Len(canvas.items) # 2 THEN [d EXCEPT !.exc = "ValueError"]
             ELSE IF \E i \in 1..2 : Convert(unit2cm, canvas.items[i]).exc # "none"
             THEN [d EXCEPT !.exc = "TypeError"]
             ELSE [d EXCEPT !.general_attributes =
                      DictSet(@, "canvas", PyTuple(<<Convert(unit2cm, canvas.items[1]).val,
                                                     Convert(unit2cm, canvas.items[2]).val>>))]

\* lines 368-371: the four sides, _margins.get(side, 0)
MarginSides(margins, unit2cm) ==
    IF margins.t # "dict" THEN Raise("AttributeError")
    ELSE LET sides == <<"top", "left", "bottom", "right">>
             given == [i \in 1..4 |->
                          IF \E j \in 1..Len(margins.keys) : margins.keys[j] = sides[i]
                          THEN DictItem(margins, sides[i])
                          ELSE PyInt(0)]
         IN  IF \E i \in 1..4 : Convert(unit2cm, given[i]).exc # "none"
             THEN Raise("TypeError")
             ELSE Return(PyDict(sides, [i \in 1..4 |-> Convert(unit2cm, given[i]).val]))

\* lines 363-372
ConvertMargins(d, unit2cm) ==
    IF ~DictHas(d.general_attributes, "margins") THEN d
    ELSE LET margins == DictGet(d.general_attributes, "margins")
             value == IF IsNumber(margins) THEN Convert(unit2cm, margins)
                      ELSE MarginSides(margins, unit2cm)
         IN  IF value.exc # "none" THEN [d EXCEPT !.exc = value.exc]
             ELSE [d EXCEPT !.general_attributes = DictSet(@, "margins", value.val)]

\* lines 374-377: xshift and yshift
RECURSIVE ConvertShifts(_, _, _)
ConvertShifts(d, unit2cm, keys) ==
    IF keys = <<>> \/ d.exc # "none" THEN d
    ELSE IF ~DictHas(d.general_attributes, Head(keys))
    THEN ConvertShifts(d, unit2cm, Tail(keys))
    ELSE LET v == Convert(unit2cm, DictGet(d.general_attributes, Head(keys)))
         IN  IF v.exc # "none" THEN [d EXCEPT !.exc = v.exc]
             ELSE ConvertShifts(
                    [d EXCEPT !.general_attributes =
                        DictSet(@, Head(keys), PyStr(FloatStr(v.val) \o "cm"))],
                    unit2cm, Tail(keys))

\* the default of general_attributes.get('units', ...)
DefaultUnits == PyTuple(<<PyStr("cm"), PyStr("pt")>>)

convert_units(d) ==
    LET units == DictGetDefault(d.general_attributes, "units", DefaultUnits)
        size_unit == IF IsInstance(units, "tuple") THEN units.items[1] ELSE units
        width_unit == IF IsInstance(units, "tuple") THEN units.items[2] ELSE units
        unit2cm == UnitConverter(size_unit, PyStr("cm"))
        unit2pt == UnitConverter(width_unit, PyStr("pt"))
    IN  IF IsInstance(units, "tuple") /\ Len(units.items) < 2
        THEN [d EXCEPT !.exc = "IndexError"]
        ELSE IF unit2cm.exc # "none" THEN [d EXCEPT !.exc = unit2cm.exc]
        ELSE IF unit2pt.exc # "none" THEN [d EXCEPT !.exc = unit2pt.exc]
        ELSE LET families == ConvertFamilies(d, unit2cm.val, unit2pt.val, 1)
                 canvas == ConvertCanvas(families, unit2cm.val)
                 margins == IF canvas.exc # "none" THEN canvas
                            ELSE ConvertMargins(canvas, unit2cm.val)
             IN  ConvertShifts(margins, unit2cm.val, <<"xshift", "yshift">>)

----------------------------------------------------------------------------
(* TikzNetworkDrawer.curve *)

\* np.rad2deg(np.arccos(...)) of lines 440-449, in ten-thousandths of a
\* degree: with v1 = (0, 0) and v2 = (1, 1) the cosine is
\* (2/3) / sqrt(4/9 + curved^2), so the angle is arctan(1.5 |curved|), read
\* from a table at the curvature factors 0.0001, 0.1, 0.5, 1 and 2
ArccosTable ==
    << [curved |-> 1,     angle |-> 86],
       [curved |-> 1000,  angle |-> 85308],
       [curved |-> 5000,  angle |-> 368699],
       [curved |-> 10000, angle |-> 563099],
       [curved |-> 20000, angle |-> 715651] >>

\* as Angle, but an angle that carries the sign of the factor
Angle_Signed(curved) ==
    LET rows == {i \in 1..Len(ArccosTable) : ArccosTable[i].curved <= Abs(curved)}
    IN  Sign(curved) * ArccosTable[CHOOSE i \in rows : \A j \in rows : j <= i].angle

\* the table row of the largest factor that is at most |curved|
Angle(curved) ==
    LET rows == {i \in 1..Len(ArccosTable) : ArccosTable[i].curved <= Abs(curved)}
    IN  ArccosTable[CHOOSE i \in rows : \A j \in rows : j <= i].angle

\* as CurveValue, but without the branch for a factor of 0
CurveValue_NoZeroBranch(value) ==
    IF ~IsNumber(value) \/ value.t = "bool"
    THEN [exc |-> "TypeError", val |-> None, computed |-> TRUE]
    ELSE [exc |-> "none",
          val |-> IF Tenthousandths(value) = 0 THEN PyFloat(0)
                  ELSE RoundDigits(PyFloat(Sign(Tenthousandths(value))
                                           * Angle(Tenthousandths(value)) * (-1))),
          computed |-> TRUE]

\* the body of the loop of curve for one value of edge_curved: the bend
\* angle, and whether the angle was computed
CurveValue(value) ==
    IF IsNumber(value) /\ value.n = 0
    THEN [exc |-> "none", val |-> PyInt(0), computed |-> FALSE]
    ELSE IF ~IsNumber(value) \/ value.t = "bool"
    THEN \* curved * 0.5 of None, a str or a tuple; np.sign of a bool
         [exc |-> "TypeError", val |-> None, computed |-> TRUE]
    ELSE [exc |-> "none",
          val |-> RoundDigits(PyFloat(Sign(Tenthousandths(value))
                                      * Angle(Tenthousandths(value)) * (-1))),
          computed |-> TRUE]

\* for key, value in self.edge_attributes['edge_curved'].items(): ...
\* acc = [exc, val, computed]: the mapping built and the keys whose angle
\* was computed
RECURSIVE CurveLoop(_, _, _)
CurveLoop(edge_curved, i, acc) ==
    IF i > Len(edge_curved) \/ acc.exc # "none" THEN acc
    ELSE LET one == CurveValue(edge_curved[i].v)
         IN  CurveLoop(edge_curved, i + 1,
                [exc |-> one.exc,
                 val |-> IF one.exc = "none"
                         THEN DictSet(acc.val, edge_curved[i].k, one.val) ELSE acc.val,
                 computed |-> IF one.computed
                              THEN Append(acc.computed, edge_curved[i].k)
                              ELSE acc.computed])

curve(d) ==
    IF ~DictHas(d.edge_attributes, "edge_curved")
    THEN [exc |-> "UnboundLocalError", val |-> <<>>, computed |-> <<>>]
    ELSE CurveLoop(DictGet(d.edge_attributes, "edge_curved"), 1,
                   [exc |-> "none", val |-> <<>>, computed |-> <<>>])

\* lines 266-268: bend the edges if enabled; a value held by
\* edge_attributes is a map and never None
BendEdges(d) ==
    IF ~DictHas(d.edge_attributes, "edge_curved") THEN d
    ELSE LET curved == curve(d)
         IN  IF curved.exc # "none"
             THEN [d EXCEPT !.exc = curved.exc, !.angle_computed = curved.computed]
             ELSE [d EXCEPT !.edge_attributes = DictSet(@, "edge_curved", curved.val),
                            !.angle_computed = curved.computed]

\* Layout.__init__ (layout.py): the options read from the keyword arguments
Layout_init(attr) ==
    [layout_type |-> DictGetDefault(attr, "layout", None),
     k           |-> DictGetDefault(attr, "layout_force", None),
     fixed       |-> DictGetDefault(attr, "layout_fixed", None),
     iterations  |-> DictGetDefault(attr, "layout_iterations", PyInt(50)),
     threshold   |-> DictGetDefault(attr, "layout_threshold", PyFloat(1)),
     weight      |-> DictGetDefault(attr, "layout_weight", None),
     dimension   |-> DictGetDefault(attr, "layout_dimension", PyInt(2)),
     seed        |-> DictGetDefault(attr, "layout_seed", None),
     positions   |-> DictGetDefault(attr, "layout_positions", None)]

----------------------------------------------------------------------------
(* Layout (layout.py).  An array of coordinates is a sequence of rows, a   *)
(* row a sequence of integers: coordinates in thousandths.                 *)

\* the attribute self.layout of a Layout object: not set by __init__
Unset == [state |-> "unset", rows |-> <<>>]
NoArray == [state |-> "None", rows |-> <<>>]

\* Layout(nodes, adjacency_matrix, **attr)
Layout(nodes, adjacency_matrix, attr) ==
    [nodes |-> nodes, adjacency_matrix |-> adjacency_matrix,
     layout_type |-> Layout_init(attr).layout_type,
     k           |-> Layout_init(attr).k,
     fixed       |-> Layout_init(attr).fixed,
     iterations  |-> Layout_init(attr).iterations,
     threshold   |-> Layout_init(attr).threshold,
     weight      |-> Layout_init(attr).weight,
     dimension   |-> Layout_init(attr).dimension,
     seed        |-> Layout_init(attr).seed,
     positions   |-> Layout_init(attr).positions,
     layout      |-> Unset]

\* numpy's global RandomState is a position in a stream of numbers of
\* [0, 1), here in thousandths; no method of Layout seeds it
RandomPeriod == 7
RandomNumber(position) == ((position % RandomPeriod) * 3 % RandomPeriod) * 125

\* np.random.rand(rows, columns) drawn at position np_random
Rand(np_random, rows, columns) ==
    [r \in 1..rows |->
        [c \in 1..columns |-> RandomNumber(np_random + (r - 1) * columns + (c - 1))]]
\* the position of the stream after it
RandAfter(np_random, rows, columns) == (np_random + rows * columns) % RandomPeriod

\* dict(zip(self.nodes, layout)): one entry per node id in the order of its
\* first occurrence; a later row of the same node replaces an earlier one
Zip(nodes, rows) ==
    LET n == IF Len(nodes) <= Len(rows) THEN Len(nodes) ELSE Len(rows)
        firsts == SelectSeq([i \in 1..n |-> i],
                            LAMBDA i : \A j \in 1..(i - 1) : nodes[j] # nodes[i])
        last(v) == CHOOSE j \in 1..n : nodes[j] = v /\ \A h \in (j + 1)..n : nodes[h] # v
    IN  [p \in 1..Len(firsts) |->
            [k |-> nodes[firsts[p]], v |-> rows[last(nodes[firsts[p]])]]]

\* what a method of Layout gives back: the exception or the value, the
\* object and the random stream as the call leaves them, and the arrays the
\* iteration went through
Outcome(exc, val, obj, np_random, trace) ==
    [exc |-> exc, val |-> val, obj |-> obj, np_random |-> np_random, trace |-> trace]

\* Layout.random
random(L, np_random) ==
    IF ~IsInstance(L.dimension, "int") THEN Outcome("TypeError", <<>>, L, np_random, <<>>)
    ELSE Outcome("none",
                 Zip(L.nodes, Rand(np_random, Len(L.nodes), L.dimension.n)),
                 L, RandAfter(np_random, Len(L.nodes), L.dimension.n), <<>>)

\* what iterating self.fixed yields: the elements of a list or tuple, the
\* keys of a dict
FixedNames(fixed) ==
    IF fixed.t = "dict" THEN fixed.keys
    ELSE [i \in 1..Len(fixed.items) |->
             IF fixed.items[i].t = "str" THEN fixed.items[i].s ELSE "?"]

\* self.nodes.index(v), counted from 0
NodeIndex(nodes, v) == (CHOOSE i \in 1..Len(nodes) : nodes[i] = v /\ \A j \in 1..(i - 1) : nodes[j] # v) - 1

\* line 131: np.asarray([self.nodes.index(v) for v in self.fixed])
FixedIndices(L) ==
    IF L.fixed.t \notin {"list", "tuple", "dict"} THEN Raise("TypeError")
    ELSE IF \E i \in 1..Len(FixedNames(L.fixed)) :
               \A j \in 1..Len(L.nodes) : L.nodes[j] # FixedNames(L.fixed)[i]
    THEN Raise("ValueError")
    ELSE Return([t |-> "ndarray", s |-> "", n |-> 0, keys |-> <<>>,
                 items |-> [i \in 1..Len(FixedNames(L.fixed)) |->
                               PyInt(NodeIndex(L.nodes, FixedNames(L.fixed)[i]))]])

\* the rows of the array that self.fixed names, counted from 1
FixedRows(fixed) == {fixed.items[i].n + 1 : i \in 1..Len(fixed.items)}

\* max(x) - min(x) of column c of the array
Extent(rows, c) ==
    LET xs == {rows[r][c] : r \in 1..Len(rows)}
    IN  (CHOOSE x \in xs : \A y \in xs : y <= x) - (CHOOSE x \in xs : \A y \in xs : x <= y)

\* lines 196-197: the initial temperature
Temperature(rows) ==
    (IF Extent(rows, 1) >= Extent(rows, 2) THEN Extent(rows, 1) ELSE Extent(rows, 2)) \div 10

\* The displacement of lines 208-220 is a function of the coordinates, the
\* weights and k that moves every node by the temperature t in the
\* direction of the force on it.  The direction is an input of the layout:
\* in each iteration one of the fields below.
Fields == {"still", "apart", "drift"}
Direction(field, r, c) ==
    IF field = "apart" THEN (IF c = 1 THEN (IF r % 2 = 1 THEN 1 ELSE -1) ELSE 0)
    ELSE IF field = "drift" THEN (IF c <= 2 THEN 1 ELSE 0)
    ELSE 0

\* as DeltaLayout, but a fixed node is moved as any other node
DeltaLayout_FixedMoves(rows, field, t, fixed_rows) ==
    [r \in 1..Len(rows) |-> [c \in 1..Len(rows[r]) |-> Direction(field, r, c) * t]]

\* lines 218-223: delta_layout, with delta_layout[self.fixed] = 0.0
DeltaLayout(rows, field, t, fixed_rows) ==
    [r \in 1..Len(rows) |->
        [c \in 1..Len(rows[r]) |->
            IF r \in fixed_rows THEN 0 ELSE Direction(field, r, c) * t]]

\* f[lo] + ... + f[hi], summed by halves
RECURSIVE SumOver(_, _, _)
SumOver(f, lo, hi) ==
    IF lo > hi THEN 0
    ELSE IF lo = hi THEN f[lo]
    ELSE SumOver(f, lo, (lo + hi) \div 2) + SumOver(f, (lo + hi) \div 2 + 1, hi)

\* np.linalg.norm(delta_layout) / _n < self.threshold
Converged(delta_layout, n, threshold) ==
    LET squares == [r \in 1..Len(delta_layout) |->
                       [c \in 1..Len(delta_layout[r]) |->
                           delta_layout[r][c] * delta_layout[r][c]]]
        rowSums == [r \in 1..Len(squares) |-> SumOver(squares[r], 1, Len(squares[r]))]
    IN  /\ Tenthousandths(threshold) > 0
        /\ 100 * SumOver(rowSums, 1, Len(rowSums))
               < (Tenthousandths(threshold) * n) * (Tenthousandths(threshold) * n)

\* lines 206-229: for iteration in range(self.iterations), acc the arrays so far
RECURSIVE IterationLoop(_, _, _, _, _, _, _, _, _)
\* as IterationLoop, but the break of lines 228-229 comes one iteration
\* late: after the iteration that was below the threshold one more runs
IterationLoop_BreakLate(rows, fixed_rows, t, dt, iterations, threshold, forces, iteration, acc) ==
    IF iteration > iterations THEN acc
    ELSE LET field == IF iteration <= Len(forces) THEN forces[iteration] ELSE "still"
             delta_layout == DeltaLayout(rows, field, t, fixed_rows)
             moved == [r \in 1..Len(rows) |->
                          [c \in 1..Len(rows[r]) |-> rows[r][c] + delta_layout[r][c]]]
         IN  IF Converged(delta_layout, Len(rows), threshold)
             THEN Append(Append(acc, moved), moved)
             ELSE IterationLoop(moved, fixed_rows, t - dt, dt, iterations, threshold,
                                forces, iteration + 1, Append(acc, moved))

IterationLoop(rows, fixed_rows, t, dt, iterations, threshold, forces, iteration, acc) ==
    IF iteration > iterations THEN acc
    ELSE LET field == IF iteration <= Len(forces) THEN forces[iteration] ELSE "still"
             delta_layout == DeltaLayout(rows, field, t, fixed_rows)
             moved == [r \in 1..Len(rows) |->
                          [c \in 1..Len(rows[r]) |-> rows[r][c] + delta_layout[r][c]]]
         IN  IF Converged(delta_layout, Len(rows), threshold)
             THEN Append(acc, moved)
             ELSE IterationLoop(moved, fixed_rows, t - dt, dt, iterations, threshold,
                                forces, iteration + 1, Append(acc, moved))

\* lines 181-230, shared by the dense and the sparse algorithm: the start
\* array, the temperature and the iteration
Iterate(L, np_random, forces, n, mask_error) ==
    LET start == IF L.layout.state = "None"
                 THEN Rand(np_random, n, L.dimension.n) ELSE L.layout.rows
        after == IF L.layout.state = "None"
                 THEN RandAfter(np_random, n, L.dimension.n) ELSE np_random
        fixed_rows == IF L.fixed = None THEN {} ELSE FixedRows(L.fixed)
        t == Temperature(start)
        trace == IterationLoop(start, fixed_rows, t, t \div (L.iterations.n + 1),
                               L.iterations.n, L.threshold, forces, 1, <<start>>)
    IN  IF ~IsInstance(L.dimension, "int") \/ ~IsInstance(L.iterations, "int")
        THEN Outcome("TypeError", <<>>, L, np_random, <<>>)
        ELSE IF n = 0 THEN Outcome("ValueError", <<>>, L, after, <<>>)
        ELSE IF \E r \in 1..Len(start) : Len(start[r]) < 2
        THEN Outcome("IndexError", <<>>, L, after, <<>>)
        ELSE IF L.iterations.n + 1 = 0
        THEN Outcome("ZeroDivisionError", <<>>, L, after, <<>>)
        ELSE IF L.iterations.n >= 1 /\ mask_error
        THEN Outcome("IndexError", <<>>, L, after, <<start>>)
        ELSE Outcome("none", trace[Len(trace)], L, after, trace)

\* Layout._fruchterman_reingold
dense_fruchterman_reingold(L, np_random, forces) ==
    IF L.adjacency_matrix.kind = "None"
    THEN \* None has no todense
         Outcome("AttributeError", <<>>, L, np_random, <<>>)
    ELSE IF L.layout.state = "unset"
    THEN Outcome("AttributeError", <<>>, L, np_random, <<>>)
    ELSE Iterate(L, np_random, forces, L.adjacency_matrix.rows,
                 \* delta_layout[self.fixed] with an array of no integer type
                 \* (np.asarray([])) or with an index past the last row
                 /\ L.fixed # None
                 /\ \/ L.fixed.t = "ndarray" /\ L.fixed.items = <<>>
                    \/ \E r \in FixedRows(L.fixed) : r > L.adjacency_matrix.rows)

\* Layout._sparse_fruchterman_reingold
sparse_fruchterman_reingold(L, np_random, forces) ==
    IF L.adjacency_matrix.kind = "None"
    THEN \* the AttributeError of None.shape is caught and CnetError raised
         Outcome("CnetError", <<>>, L, np_random, <<>>)
    ELSE IF L.layout.state = "unset"
    THEN Outcome("AttributeError", <<>>, L, np_random, <<>>)
    ELSE IF L.layout.state # "None"
    THEN \* line 264 reads the local name layout before it is bound
         Outcome("UnboundLocalError", <<>>, L, np_random, <<>>)
    ELSE Iterate([L EXCEPT !.fixed = IF @ = None THEN PyList(<<>>) ELSE @],
                 np_random, forces, L.adjacency_matrix.rows, FALSE)

\* line 153: the number of nodes from which the sparse algorithm is tried
SparseThreshold == 500

\* lines 151-157: the sparse algorithm for large graphs, and the dense one
\* whenever that raised anything
Solve(L, np_random, forces) ==
    IF Len(L.nodes) < SparseThreshold
    THEN dense_fruchterman_reingold(L, np_random, forces)
    ELSE LET sparse == sparse_fruchterman_reingold(L, np_random, forces)
         IN  IF sparse.exc = "none" THEN sparse
             ELSE dense_fruchterman_reingold(sparse.obj, sparse.np_random, forces)

\* lines 133-145: the start array self.layout; line 135 reads the local
\* name layout, which is bound only at line 155 or 157
GivenPositions(L, np_random) ==
    IF L.positions # None
    THEN Outcome("UnboundLocalError", <<>>, L, np_random, <<>>)
    ELSE Outcome("none", <<>>, [L EXCEPT !.layout = NoArray], np_random, <<>>)

\* lines 147-149: k from the size of the domain; _size is bound only at
\* line 135
DefaultForce(L, np_random) ==
    IF L.k = None /\ L.fixed # None
    THEN Outcome("UnboundLocalError", <<>>, L, np_random, <<>>)
    ELSE Outcome("none", <<>>, L, np_random, <<>>)

\* lines 130-149 of Layout.fruchterman_reingold: the indices of the fixed
\* nodes, the start array and k
Prepare(L, np_random) ==
    LET indices == FixedIndices(L)
        fixed == IF L.fixed = None THEN L ELSE [L EXCEPT !.fixed = indices.val]
        positioned == GivenPositions(fixed, np_random)
        forced == DefaultForce(positioned.obj, positioned.np_random)
    IN  IF L.fixed # None /\ indices.exc # "none"
        THEN Outcome(indices.exc, <<>>, L, np_random, <<>>)
        ELSE IF positioned.exc # "none" THEN positioned
        ELSE forced

\* lines 159-161: layout = dict(zip(self.nodes, layout)); return layout
Zipped(L, solved) ==
    IF solved.exc # "none" THEN solved
    ELSE Outcome("none", Zip(L.nodes, solved.val),
                 solved.obj, solved.np_random, solved.trace)

\* Layout.fruchterman_reingold
fruchterman_reingold(L, np_random, forces) ==
    LET prepared == Prepare(L, np_random)
    IN  IF prepared.exc # "none" THEN prepared
        ELSE Zipped(L, Solve(prepared.obj, prepared.np_random, forces))

\* lines 57-59: the names of the two layouts
names_rand == {"Random", "random", "rand"}
names_fr ==
    {"Fruchterman-Reingold", "fruchterman_reingold", "fr", "spring_layout",
     "spring layout", "FR"}

\* lines 62 and 64: self.layout = ..., unless making the layout raised
SetLayout(made) ==
    IF made.exc # "none" THEN made
    ELSE [made EXCEPT !.obj.layout =
             [state |-> "dict", rows |-> [i \in 1..Len(made.val) |-> made.val[i].v]]]

\* Layout.generate_layout
generate_layout(L, np_random, forces) ==
    IF L.layout_type = None
       \/ (L.layout_type.t = "str" /\ L.layout_type.s \in names_rand)
    THEN SetLayout(random(L, np_random))
    ELSE IF L.layout_type.t = "str" /\ L.layout_type.s \in names_fr
    THEN SetLayout(fruchterman_reingold(L, np_random, forces))
    ELSE IF L.layout.state = "unset"
    THEN \* return self.layout of an object that has no such attribute
         Outcome("AttributeError", <<>>, L, np_random, <<>>)
    ELSE Outcome("none", L.layout.rows, L, np_random, <<>>)

----------------------------------------------------------------------------
(* Canvas (canvas.py): lengths in ten-thousandths of a centimetre *)

\* Canvas(width, height, margins, node_sizes): 6 x 6 when no size is given
Canvas(width, height, margins, node_sizes) ==
    IF \E x \in {width, height} : x # None /\ ~IsNumber(x) THEN Raise("TypeError")
    ELSE Return([width  |-> IF width = None THEN 60000 ELSE Tenthousandths(width),
                 height |-> IF height = None THEN 60000 ELSE Tenthousandths(height),
                 margins |-> margins, node_sizes |-> node_sizes])

\* the largest of a non-empty set of integers
Max(S) == CHOOSE x \in S : \A y \in S : y <= x
Min(S) == CHOOSE x \in S : \A y \in S : x <= y

\* as Drawable, but margins that leave no drawable area are returned
Drawable_Unchecked(canvas, sides) == sides

\* the margins have to leave a drawable area
Drawable(canvas, sides) ==
    IF sides.exc # "none" THEN sides
    ELSE IF \/ canvas.width - sides.val.left - sides.val.right <= 0
            \/ canvas.height - sides.val.top - sides.val.bottom <= 0
    THEN Raise("CnetError")
    ELSE sides

\* Canvas.margins: the four sides; None gives half the largest node size
\* (0.35 when no node has a size), a number that number on every side, a
\* mapping its sides and 0 for a missing side
Canvas_margins(canvas) ==
    LET m == canvas.margins
        sizes == canvas.node_sizes
        uniform(x) == [top |-> x, bottom |-> x, left |-> x, right |-> x]
        side(name) == IF \E j \in 1..Len(m.keys) : m.keys[j] = name
                      THEN DictItem(m, name) ELSE PyInt(0)
        sides == IF m = None
                 THEN IF sizes = None \/ sizes.items = <<>> THEN Return(uniform(3500))
                      ELSE IF \E i \in 1..Len(sizes.items) : ~IsNumber(sizes.items[i])
                      THEN Raise("TypeError")
                      ELSE Return(uniform(Max({Tenthousandths(sizes.items[i])
                                                  : i \in 1..Len(sizes.items)}) \div 2))
                 ELSE IF IsNumber(m) THEN Return(uniform(Tenthousandths(m)))
                 ELSE IF m.t # "dict" THEN Raise("CnetError")
                 ELSE IF \E name \in {"top", "bottom", "left", "right"} : ~IsNumber(side(name))
                 THEN Raise("TypeError")
                 ELSE Return([top |-> Tenthousandths(side("top")),
                              bottom |-> Tenthousandths(side("bottom")),
                              left |-> Tenthousandths(side("left")),
                              right |-> Tenthousandths(side("right"))])
    IN  Drawable(canvas, sides)

\* a coordinate is a tuple, list or array of at least two numbers
IsCoordinate(v) ==
    /\ v.t \in {"tuple", "list", "ndarray"}
    /\ Len(v.items) >= 2
    /\ \A c \in 1..Len(v.items) : IsNumber(v.items[c])

\* one axis of fit: the coordinate x of data that spans lo..hi, scaled by
\* num / den and centred in the drawable span that starts at offset
FitAxis(x, lo, hi, num, den, offset, span) ==
    offset + DivRound(span * den - num * (hi - lo), 2 * den) + DivRound(num * (x - lo), den)

\* the scale of an axis as a fraction in lowest terms; 1 for an axis
\* without extent
AxisScale(span, extent) ==
    IF extent = 0 THEN [num |-> 1, den |-> 1]
    ELSE [num |-> span \div GCD(span, extent), den |-> extent \div GCD(span, extent)]

\* as CommonScale, but the larger of the two scales
CommonScale_Larger(sx, sy, dx, dy) ==
    IF dx = 0 THEN sy ELSE IF dy = 0 THEN sx
    ELSE IF sx.num * sy.den <= sy.num * sx.den THEN sy ELSE sx

\* the one scale of both axes when the aspect ratio is kept: the smaller of
\* the two, and that of the other axis for an axis without extent
CommonScale(sx, sy, dx, dy) ==
    IF dx = 0 THEN sy ELSE IF dy = 0 THEN sx
    ELSE IF sx.num * sy.den <= sy.num * sx.den THEN sx ELSE sy

\* the positions scaled by fx and fy into the area w x h inside the margins
FitRows(layout, xs, ys, fx, fy, sides, w, h) ==
    [i \in 1..Len(layout) |->
        [k |-> layout[i].k,
         v |-> PyTuple(<<
            PyFloat(FitAxis(Tenthousandths(layout[i].v.items[1]), Min(xs), Max(xs),
                            fx.num, fx.den, sides.left, w)),
            PyFloat(FitAxis(Tenthousandths(layout[i].v.items[2]), Min(ys), Max(ys),
                            fy.num, fy.den, sides.bottom, h))
            >>)]]

\* the scales of the two axes, the same for both when the aspect ratio is
\* kept
FitScaled(layout, xs, ys, sx, sy, keep_aspect_ratio, sides, w, h) ==
    IF keep_aspect_ratio
    THEN FitRows(layout, xs, ys,
                 CommonScale(sx, sy, Max(xs) - Min(xs), Max(ys) - Min(ys)),
                 CommonScale(sx, sy, Max(xs) - Min(xs), Max(ys) - Min(ys)),
                 sides, w, h)
    ELSE FitRows(layout, xs, ys, sx, sy, sides, w, h)

\* the extent of the positions and of the area inside the margins
FitWithin(layout, xs, ys, keep_aspect_ratio, sides, w, h) ==
    FitScaled(layout, xs, ys,
              AxisScale(w, Max(xs) - Min(xs)), AxisScale(h, Max(ys) - Min(ys)),
              keep_aspect_ratio, sides, w, h)

\* the positions fitted inside the margins, unless the margins or a position
\* raise
FitInside(canvas, layout, keep_aspect_ratio, margins) ==
    IF margins.exc # "none" THEN margins
    ELSE IF \E i \in 1..Len(layout) : ~IsCoordinate(layout[i].v) THEN Raise("TypeError")
    ELSE IF layout = <<>> THEN Return(<<>>)
    ELSE Return(FitWithin(layout,
                          {Tenthousandths(layout[i].v.items[1]) : i \in 1..Len(layout)},
                          {Tenthousandths(layout[i].v.items[2]) : i \in 1..Len(layout)},
                          keep_aspect_ratio, margins.val,
                          canvas.width - margins.val.left - margins.val.right,
                          canvas.height - margins.val.top - margins.val.bottom))

\* Canvas.fit(layout, keep_aspect_ratio)
Canvas_fit(canvas, layout, keep_aspect_ratio) ==
    FitInside(canvas, layout, keep_aspect_ratio, Canvas_margins(canvas))

\* lines 239-243: create canvas
CreateCanvas(d) ==
    LET size == DictGetDefault(d.general_attributes, "canvas", PyTuple(<<None, None>>))
        canvas == Canvas(size.items[1], size.items[2],
                         DictGetDefault(d.general_attributes, "margins", None),
                         IF DictHas(d.node_attributes, "node_size")
                         THEN AsPyDict(DictGet(d.node_attributes, "node_size")) ELSE None)
    IN  IF size.t \notin {"tuple", "list", "str"} THEN [d EXCEPT !.exc = "TypeError"]
        ELSE IF size.t = "str" \/ Len(size.items) < 2 THEN [d EXCEPT !.exc = "IndexError"]
        ELSE IF canvas.exc # "none" THEN [d EXCEPT !.exc = canvas.exc]
        ELSE [d EXCEPT !.canvas = canvas.val]

\* a row of an array as a Python value
RowValue(row) ==
    [t |-> "ndarray", s |-> "", n |-> 0, keys |-> <<>>,
     items |-> [c \in 1..Len(row) |-> PyFloat(row[c] * 10)]]

\* lines 249-250: the layout made by the engine becomes the layout of the
\* drawer
StoreLayout(d, general, made) ==
    IF made.exc # "none"
    THEN [d EXCEPT !.general_attributes = general,
                   !.layout_options = Layout_init(general),
                   !.engine = made.obj,
                   !.env.np_random = made.np_random,
                   !.exc = made.exc]
    ELSE [d EXCEPT !.general_attributes = general,
                   !.layout_options = Layout_init(general),
                   !.engine = made.obj,
                   !.env.np_random = made.np_random,
                   !.layout = [i \in 1..Len(made.val) |->
                                  [k |-> made.val[i].k, v |-> RowValue(made.val[i].v)]]]

\* lines 246-250: a layout named by a string, or none, is generated
GeneratedLayout(d, general) ==
    StoreLayout(d, general,
                generate_layout(Layout(d.nodes, d.adjacency_matrix, general),
                                d.env.np_random, d.env.forces))

\* lines 251-253: any other layout is a value per node
GivenLayout(d, resolved) ==
    IF resolved.exc # "none" THEN [d EXCEPT !.exc = resolved.exc]
    ELSE [d EXCEPT !.layout = resolved.val]

\* lines 245-253: configure the layout
ConfigureLayout(d) ==
    IF IsInstance(DictGetDefault(d.attributes, "layout", None), "str")
       \/ DictGetDefault(d.attributes, "layout", None) = None
    THEN GeneratedLayout(d, DictSet(d.general_attributes, "layout",
                                    DictGetDefault(d.attributes, "layout", None)))
    ELSE GivenLayout(d, format_node_value(d.nodes, DictGetDefault(d.attributes, "layout", None)))

\* bool(value)
Truthy(value) ==
    IF value.t \in {"int", "bool", "float"} THEN value.n # 0
    ELSE IF value.t = "str" THEN value.s # ""
    ELSE IF value.t = "NoneType" THEN FALSE
    ELSE value.items # <<>>

\* lines 261-264: the fitted positions become the layout of the drawer and
\* the node attribute "layout"
AssignLayout(d, fitted) ==
    IF fitted.exc # "none" THEN [d EXCEPT !.exc = fitted.exc]
    ELSE [d EXCEPT !.layout = fitted.val,
                   !.node_attributes = DictSet(@, "layout", fitted.val)]

\* lines 259-264: fit the node positions to the canvas and assign them to
\* the nodes
FitLayout(d) ==
    AssignLayout(d, Canvas_fit(d.canvas, d.layout,
                        Truthy(DictGetDefault(d.general_attributes, "keep_aspect_ratio",
                                              PyBool(TRUE)))))

\* _attr[key] = self.node_attributes[key][node] for key in self.node_attributes
NodeAttr(node_attrs, node) ==
    [i \in 1..Len(node_attrs) |->
        [k |-> node_attrs[i].k, v |-> DictGet(node_attrs[i].v, node)]]

\* lines 270-276: initialize vertices
InitNodes(d) ==
    IF \E i \in 1..Len(d.nodes), j \in 1..Len(d.node_attributes) :
          ~DictHas(d.node_attributes[j].v, d.nodes[i])
    THEN [d EXCEPT !.exc = "KeyError"]
    ELSE [d EXCEPT !.node_drawer =
             [i \in 1..Len(d.nodes) |->
                 [id |-> d.nodes[i], attributes |-> NodeAttr(d.node_attributes, d.nodes[i])]]]

\* _attr[key] = self.edge_attributes[key][edge] for key in self.edge_attributes
EdgeAttr(edge_attrs, edge) ==
    [i \in 1..Len(edge_attrs) |->
        [k |-> edge_attrs[i].k, v |-> DictGet(edge_attrs[i].v, edge)]]

\* lines 278-284: initialize edges
InitEdges(d) ==
    [d EXCEPT !.edge_drawer =
        [i \in 1..Len(d.edges) |->
            [id |-> d.edges[i].k, u |-> d.edges[i].v[1], v |-> d.edges[i].v[2],
             attributes |-> EdgeAttr(d.edge_attributes, d.edges[i].k)]]]

\* the stages of draw in their order; an exception raised by a stage ends
\* draw, so that every later stage leaves the drawer as it is
ThenDirected(d) == IF d.exc # "none" THEN d ELSE DefaultDirected(d)
ThenUnits(d) == IF d.exc # "none" THEN d ELSE convert_units(d)
ThenCanvas(d) == IF d.exc # "none" THEN d ELSE CreateCanvas(d)
ThenLayout(d) == IF d.exc # "none" THEN d ELSE ConfigureLayout(d)
ThenFit(d) == IF d.exc # "none" THEN d ELSE FitLayout(d)
ThenCurve(d) == IF d.exc # "none" THEN d ELSE BendEdges(d)
ThenVertices(d) == IF d.exc # "none" THEN d ELSE InitNodes(d)
ThenEdges(d) == IF d.exc # "none" THEN d ELSE InitEdges(d)

\* TikzNetworkDrawer.draw, lines 204-284
draw(d) ==
    ThenEdges(ThenVertices(ThenCurve(ThenFit(ThenLayout(ThenCanvas(ThenUnits(
        ThenDirected(AssignAttributes(d)))))))))

\* lines 158-161: the constructor ends by drawing the network in memory
TikzNetworkDrawer(net, kwds) ==
    LET ingested == Ingest(NewDrawer(net, kwds))
    IN  IF ingested.exc # "none" THEN ingested ELSE draw(ingested)


----------------------------------------------------------------------------
(* TikzNodeDrawer and TikzEdgeDrawer.  A string that is emitted is held as *)
(* the sequence of the fields that its commas separate: "a,b" is           *)
(* <<"a", "b">>, a string without a comma is one field.  A str value that  *)
(* holds commas keeps its fields in items.                                 *)

\* a str value from its fields
PyText(fields) ==
    IF Len(fields) = 1 THEN PyStr(fields[1])
    ELSE [t |-> "str", s |-> "", n |-> 0, items |-> fields, keys |-> <<>>]
\* the fields of a str value
TextFields(v) == IF v.items = <<>> THEN <<v.s>> ELSE v.items

\* s + text and text + s, for a string s without a comma
Prefixed(s, fields) == [fields EXCEPT ![1] = s \o @]
Suffixed(fields, s) == [fields EXCEPT ![Len(fields)] = @ \o s]
Wrapped(open, fields, close) == Suffixed(Prefixed(open, fields), close)

\* the concatenation of texts that each follow a comma
RECURSIVE Flatten(_, _)
Flatten(texts, i) ==
    IF i > Len(texts) THEN <<>> ELSE texts[i] \o Flatten(texts, i + 1)

\* str(value), and repr(value) for the items of a tuple, list or dict
RECURSIVE StrFields(_, _)
StrFields(v, quoted) ==
    IF v.t = "str" THEN (IF quoted THEN Wrapped("'", TextFields(v), "'") ELSE TextFields(v))
    ELSE IF v.t = "int" THEN <<ToString(v.n)>>
    ELSE IF v.t = "float" THEN <<FloatStr(v)>>
    ELSE IF v.t = "bool" THEN <<IF v.n = 1 THEN "True" ELSE "False">>
    ELSE IF v.t = "NoneType" THEN <<"None">>
    ELSE IF v.t = "tuple" /\ Len(v.items) = 1
    THEN \* (x,)
         Prefixed("(", StrFields(v.items[1], TRUE)) \o <<")">>
    ELSE IF v.items = <<>>
    THEN <<IF v.t = "tuple" THEN "()" ELSE IF v.t = "list" THEN "[]"
           ELSE IF v.t = "dict" THEN "{}" ELSE "set()">>
    ELSE Wrapped(IF v.t = "tuple" THEN "(" ELSE IF v.t = "list" THEN "[" ELSE "{",
                 Flatten([i \in 1..Len(v.items) |->
                             Prefixed((IF i = 1 THEN "" ELSE " ")
                                          \o (IF v.t = "dict"
                                              THEN "'" \o v.keys[i] \o "': " ELSE ""),
                                      StrFields(v.items[i], TRUE))], 1),
                 IF v.t = "tuple" THEN ")" ELSE IF v.t = "list" THEN "]" ELSE "}")
\* '{}'.format(value)
Str(v) == StrFields(v, FALSE)

\* '{x:.{n}f}'.format(x=x, n=DIGITS): the float with three decimals
Fixed3(x) ==
    LET t == DivRound(Tenthousandths(x), 10)
        frac == ToString(Abs(t) % 1000)
    IN  (IF t < 0 THEN "-" ELSE "") \o ToString(Abs(t) \div 1000) \o "."
            \o SubSeq("000", 1, 3 - Len(frac)) \o frac

\* value == True
EqualsTrue(v) == v.t \in {"bool", "int", "float"} /\ Tenthousandths(v) = 10000
\* value == False
EqualsFalse(v) == v.t \in {"bool", "int", "float"} /\ v.n = 0

\* a + b
Cat(a, b) == SubSeq(a, 1, Len(a) - 1) \o Prefixed(a[Len(a)], b)

\* n * text
RECURSIVE Repeated(_, _)
Repeated(text, n) == IF n <= 0 THEN <<"">> ELSE Cat(text, Repeated(text, n - 1))

\* n * value for an int n
Times(n, v) ==
    IF v.t \in {"int", "bool"} THEN Return(PyInt(n * v.n))
    ELSE IF v.t = "float" THEN Return(PyFloat(n * v.n))
    ELSE IF v.t = "str" THEN Return(PyText(Repeated(TextFields(v), n)))
    ELSE IF v.t \in {"tuple", "list"}
    THEN Return([v EXCEPT !.items = Flatten([i \in 1..n |-> v.items], 1)])
    ELSE Raise("TypeError")


\* self.tikz_kwds and self.tikz_args of a node drawer (lines 695-716) and
\* of an edge drawer (lines 506-531), in their order
Option(k, name) == [k |-> k, name |-> name]
tikz_kwds(kind) ==
    IF kind = "node"
    THEN <<Option("node_size", "size"), Option("node_color", "color"),
           Option("node_r", "R"), Option("node_g", "G"), Option("node_b", "B"),
           Option("node_opacity", "opacity"), Option("node_label", "label"),
           Option("node_label_position", "position"),
           Option("node_label_distance", "distance"),
           Option("node_label_color", "fontcolor"),
           Option("node_label_size", "fontscale"), Option("node_shape", "shape"),
           Option("node_style", "style"), Option("node_layer", "layer")>>
    ELSE <<Option("edge_width", "lw"), Option("edge_color", "color"),
           Option("edge_r", "R"), Option("edge_g", "G"), Option("edge_b", "B"),
           Option("edge_opacity", "opacity"), Option("edge_curved", "bend"),
           Option("edge_label", "label"), Option("edge_label_position", "position"),
           Option("edge_label_distance", "distance"),
           Option("edge_label_color", "fontcolor"),
           Option("edge_label_size", "fontscale"), Option("edge_style", "style"),
           Option("edge_loop_size", "loopsize"),
           Option("edge_loop_position", "loopposition"),
           Option("edge_loop_shape", "loopshape")>>
tikz_args(kind) ==
    IF kind = "node"
    THEN <<Option("node_label_off", "NoLabel"), Option("node_label_as_id", "IdAsLabel"),
           Option("node_math_mode", "Math"), Option("node_rgb", "RGB"),
           Option("node_pseudo", "Pseudo")>>
    ELSE <<Option("edge_directed", "Direct"), Option("edge_math_mode", "Math"),
           Option("edge_rgb", "RGB"), Option("edge_not_in_bg", "NotInBG")>>

\* '{{{},{},{}}}'.format(_color[0], _color[1], _color[2])
Braced(_color) ==
    PyText(Prefixed("{", Str(_color.items[1])) \o Str(_color.items[2])
               \o Suffixed(Str(_color.items[3]), "}"))

\* attributes[kind_r], [kind_g], [kind_b] = r, g, b
SetChannels(attributes, kind, r, g, b) ==
    DictSet(DictSet(DictSet(attributes, kind \o "_r", r), kind \o "_g", g), kind \o "_b", b)

\* TikzNodeDrawer._check_color (lines 718-738) and TikzEdgeDrawer._check_color
\* (lines 533-553), which differ in the prefix of the keys only
check_color(attributes, kind, mode) ==
    LET _color == DictGetDefault(attributes, kind \o "_color", None)
        rgb == DictGetDefault(attributes, kind \o "_rgb", PyBool(FALSE))
    IN  IF /\ IsInstance(_color, "tuple") /\ Len(_color.items) < 3
           /\ (mode = "tex" \/ (mode = "csv" /\ Truthy(rgb)))
        THEN Raise("IndexError")
        ELSE IF IsInstance(_color, "tuple") /\ mode = "tex"
        THEN Return(DictSet(DictSet(attributes, kind \o "_color", Braced(_color)),
                            kind \o "_rgb", PyBool(TRUE)))
        ELSE IF IsInstance(_color, "tuple") /\ mode = "csv" /\ Truthy(rgb)
        THEN Return(SetChannels(DictSet(attributes, kind \o "_color", None), kind,
                                _color.items[1], _color.items[2], _color.items[3]))
        ELSE IF ~IsInstance(_color, "tuple") /\ mode = "csv" /\ Truthy(rgb)
        THEN Return(SetChannels(attributes, kind,
                                DictGetDefault(attributes, kind \o "_r", PyInt(0)),
                                DictGetDefault(attributes, kind \o "_g", PyInt(0)),
                                DictGetDefault(attributes, kind \o "_b", PyInt(0))))
        ELSE IF IsInstance(_color, "tuple") /\ mode = "csv" /\ EqualsFalse(rgb)
        THEN Return(DictSet(attributes, kind \o "_color", None))
        ELSE Return(attributes)

\* '{{-{{Latex[{}{}]}}, {} }}'.format(arrow_size, arrow_width, style) with
\* arrow_size = 'length=' + str(length) + 'cm,' and
\* arrow_width = 'width=' + str(width) + 'cm'
ArrowStyle(length, width, style) ==
    PyText(Wrapped("{-{Latex[length=", Str(length), "cm")
               \o Wrapped("width=", Str(width), "cm]}")
               \o Wrapped(" ", Str(style), " }"))

\* TikzEdgeDrawer._format_style, lines 555-578
format_style(attributes) ==
    IF ~DictHas(attributes, "edge_arrow_size") THEN Return(attributes)
    ELSE IF Times(15, DictGet(attributes, "edge_arrow_size")).exc # "none"
    THEN Raise("TypeError")
    ELSE IF ~DictHas(attributes, "edge_arrow_width") THEN Raise("KeyError")
    ELSE IF Times(10, DictGet(attributes, "edge_arrow_width")).exc # "none"
    THEN Raise("TypeError")
    ELSE IF EqualsTrue(DictGetDefault(attributes, "edge_directed", PyBool(FALSE)))
    THEN Return(DictSet(attributes, "edge_style",
                        ArrowStyle(Times(15, DictGet(attributes, "edge_arrow_size")).val,
                                   Times(10, DictGet(attributes, "edge_arrow_width")).val,
                                   DictGetDefault(attributes, "edge_style", PyStr("")))))
    ELSE Return(attributes)

\* the options of a tex line: ',name=value' for every keyword that is set
\* and not None, ',name' for every flag that equals True
TexOptions(attributes, kind) ==
    Flatten([i \in 1..Len(tikz_kwds(kind)) |->
                IF DictGetDefault(attributes, tikz_kwds(kind)[i].k, None) # None
                THEN Prefixed(tikz_kwds(kind)[i].name \o "=",
                              Str(DictGet(attributes, tikz_kwds(kind)[i].k)))
                ELSE <<>>], 1)
        \o Flatten([i \in 1..Len(tikz_args(kind)) |->
                IF /\ DictHas(attributes, tikz_args(kind)[i].k)
                   /\ EqualsTrue(DictGet(attributes, tikz_args(kind)[i].k))
                THEN <<tikz_args(kind)[i].name>> ELSE <<>>], 1)

\* the values of a csv row: ',value' for every keyword that is set (', '
\* when it is None), ',true' or ',false' for every flag that is set
CsvValues(attributes, kind) ==
    Flatten([i \in 1..Len(tikz_kwds(kind)) |->
                IF ~DictHas(attributes, tikz_kwds(kind)[i].k) THEN <<>>
                ELSE IF DictGet(attributes, tikz_kwds(kind)[i].k) # None
                THEN Str(DictGet(attributes, tikz_kwds(kind)[i].k))
                ELSE <<" ">>], 1)
        \o Flatten([i \in 1..Len(tikz_args(kind)) |->
                IF ~DictHas(attributes, tikz_args(kind)[i].k) THEN <<>>
                ELSE IF EqualsTrue(DictGet(attributes, tikz_args(kind)[i].k))
                THEN <<"true">> ELSE <<"false">>], 1)

\* the names of a csv header: ',name' for every keyword and flag that is set
HeadNames(attributes, kind) ==
    Flatten([i \in 1..Len(tikz_kwds(kind)) |->
                IF DictHas(attributes, tikz_kwds(kind)[i].k)
                THEN <<tikz_kwds(kind)[i].name>> ELSE <<>>], 1)
        \o Flatten([i \in 1..Len(tikz_args(kind)) |->
                IF DictHas(attributes, tikz_args(kind)[i].k)
                THEN <<tikz_args(kind)[i].name>> ELSE <<>>], 1)

\* self.x and self.y of a node drawer, lines 690-691
Position(node) ==
    DictGetDefault(node.attributes, "layout", PyTuple(<<PyInt(0), PyInt(0)>>))

\* what a method of a drawer returns: the exception or the string, and the
\* drawer after the call
Emitted(drawer, attributes, out) ==
    IF attributes.exc # "none"
    THEN [exc |-> attributes.exc, obj |-> drawer, out |-> <<>>]
    ELSE [exc |-> "none", obj |-> [drawer EXCEPT !.attributes = attributes.val],
          out |-> out]

\* TikzNodeDrawer.draw, lines 740-793
NodeLine(node, mode, attributes) ==
    IF mode = "tex"
    THEN Suffixed(<<"\\Vertex[x=" \o Fixed3(Position(node).items[1]),
                    "y=" \o Fixed3(Position(node).items[2])>>
                      \o TexOptions(attributes, "node"),
                  "]{" \o node.id \o "}\n")
    ELSE Suffixed(<<node.id, Fixed3(Position(node).items[1]),
                    Fixed3(Position(node).items[2])>> \o CsvValues(attributes, "node"),
                  "\n")
TikzNodeDrawer_draw(node, mode) ==
    Emitted(node, check_color(node.attributes, "node", mode),
            NodeLine(node, mode, check_color(node.attributes, "node", mode).val))

\* TikzNodeDrawer.head, lines 795-814
TikzNodeDrawer_head(node) ==
    Emitted(node, check_color(node.attributes, "node", "csv"),
            Suffixed(<<"id", "x", "y">>
                         \o HeadNames(check_color(node.attributes, "node", "csv").val, "node"),
                     "\n"))

\* the edge after self._format_style(), which draw calls in mode 'tex'
Styled(edge, mode) ==
    IF mode = "tex" THEN format_style(edge.attributes) ELSE Return(edge.attributes)

\* self._check_color(mode) after self._format_style()
Coloured(edge, mode, styled) ==
    IF styled.exc # "none" THEN styled ELSE check_color(styled.val, "edge", mode)

\* TikzEdgeDrawer.draw, lines 580-632
EdgeLine(edge, mode, attributes) ==
    IF mode = "tex"
    THEN Suffixed(<<"\\Edge[">> \o TexOptions(attributes, "edge"),
                  "](" \o edge.u \o ")(" \o edge.v \o ")\n")
    ELSE Suffixed(<<edge.u, edge.v>> \o CsvValues(attributes, "edge"), "\n")
TikzEdgeDrawer_draw(edge, mode) ==
    Emitted(IF Styled(edge, mode).exc = "none"
            THEN [edge EXCEPT !.attributes = Styled(edge, mode).val] ELSE edge,
            Coloured(edge, mode, Styled(edge, mode)),
            EdgeLine(edge, mode, Coloured(edge, mode, Styled(edge, mode)).val))

\* TikzEdgeDrawer.head, lines 634-653
TikzEdgeDrawer_head(edge) ==
    Emitted(edge, check_color(edge.attributes, "edge", "csv"),
            Suffixed(<<"u", "v">>
                         \o HeadNames(check_color(edge.attributes, "edge", "csv").val, "edge"),
                     "\n"))


----------------------------------------------------------------------------
(* Plot (plot.py): the files that the save methods write.  A file is the  *)
(* sequence of the strings written to it.                                 *)

\* the first drawer whose method raised, or one past the last drawer
FirstFailure(outs) ==
    IF \E i \in 1..Len(outs) : outs[i].exc # "none"
    THEN Min({i \in 1..Len(outs) : outs[i].exc # "none"})
    ELSE Len(outs) + 1

\* for drawer in drawers: f.write(drawer.draw(mode)), given what the method
\* returns on each drawer: the loop ends at the first exception
WriteAll(drawers, outs) ==
    [exc |-> IF FirstFailure(outs) <= Len(outs) THEN outs[FirstFailure(outs)].exc
             ELSE "none",
     drawers |-> [i \in 1..Len(drawers) |->
                     IF i <= FirstFailure(outs) THEN outs[i].obj ELSE drawers[i]],
     written |-> [i \in 1..(FirstFailure(outs) - 1) |-> outs[i].out]]

\* what a save method did: the exception or none, the drawer after the
\* call and the files written, each a record [name, content]
Saved(d, exc, node_drawer, edge_drawer, files) ==
    [exc |-> exc,
     obj |-> [d EXCEPT !.node_drawer = node_drawer, !.edge_drawer = edge_drawer],
     files |-> files]

\* lines 621-631: the fixed strings of a tex file; the canvas is printed in
\* centimetres
latex_header ==
    <<<<"\\documentclass{standalone}\n\\usepackage{tikz-network}\n\\begin{document}\n">>>>
latex_begin(canvas) ==
    <<<<"\\begin{tikzpicture}\n">>,
      <<"\\clip (0", "0) rectangle (" \o FloatStr(PyFloat(canvas.width)),
        FloatStr(PyFloat(canvas.height)) \o ");\n">>>>
latex_end == <<<<"\\end{tikzpicture}\n">>>>
latex_footer == <<<<"\\end{document}">>>>

\* lines 638-652: the file is written string by string, so that an
\* exception leaves what was written before it
TexFile(d, standalone, nodes, edges) ==
    (IF standalone THEN latex_header ELSE <<>>) \o latex_begin(d.canvas) \o nodes.written
        \o (IF nodes.exc # "none" THEN <<>>
            ELSE edges.written
                    \o (IF edges.exc # "none" THEN <<>>
                        ELSE latex_end \o (IF standalone THEN latex_footer ELSE <<>>)))

TexSaved(d, filename, standalone, nodes, edges) ==
    Saved(d, IF nodes.exc # "none" THEN nodes.exc ELSE edges.exc,
          nodes.drawers, IF nodes.exc # "none" THEN d.edge_drawer ELSE edges.drawers,
          <<[name |-> filename, content |-> TexFile(d, standalone, nodes, edges)]>>)

\* Plot.save_tex, lines 605-652
save_tex(d, filename, standalone) ==
    TexSaved(d, filename, standalone,
             WriteAll(d.node_drawer,
                      [i \in 1..Len(d.node_drawer) |->
                          TikzNodeDrawer_draw(d.node_drawer[i], "tex")]),
             WriteAll(d.edge_drawer,
                      [i \in 1..Len(d.edge_drawer) |->
                          TikzEdgeDrawer_draw(d.edge_drawer[i], "tex")]))

\* lines 682-685 and 688-691: the header of the first drawer, then a row
\* for every drawer; head has changed the first drawer before its row is
\* made
CsvRows(kind, drawers, head) ==
    IF head.exc # "none"
    THEN [exc |-> head.exc, drawers |-> drawers, written |-> <<>>]
    ELSE WriteAll(drawers,
                  [i \in 1..Len(drawers) |->
                      IF kind = "node"
                      THEN TikzNodeDrawer_draw(IF i = 1 THEN head.obj ELSE drawers[i], "csv")
                      ELSE TikzEdgeDrawer_draw(IF i = 1 THEN head.obj ELSE drawers[i], "csv")])

\* a csv file: the header and the rows written
CsvFile(name, head, rows) ==
    [name |-> name,
     content |-> IF head.exc # "none" THEN <<>> ELSE <<head.out>> \o rows.written]

CsvSaved(d, basename, nhead, nodes, ehead, edges) ==
    IF nhead.exc # "none" \/ nodes.exc # "none"
    THEN Saved(d, IF nhead.exc # "none" THEN nhead.exc ELSE nodes.exc,
               nodes.drawers, d.edge_drawer,
               <<CsvFile(basename \o "_nodes.csv", nhead, nodes)>>)
    ELSE IF d.edge_drawer = <<>>
    THEN \* self.drawer.edge_drawer[0] of an empty list
         Saved(d, "IndexError", nodes.drawers, d.edge_drawer,
               <<CsvFile(basename \o "_nodes.csv", nhead, nodes),
                 [name |-> basename \o "_edges.csv", content |-> <<>>]>>)
    ELSE Saved(d, IF ehead.exc # "none" THEN ehead.exc ELSE edges.exc,
               nodes.drawers, edges.drawers,
               <<CsvFile(basename \o "_nodes.csv", nhead, nodes),
                 CsvFile(basename \o "_edges.csv", ehead, edges)>>)

\* Plot.save_csv, lines 654-691, for a file name that is a string
save_csv(d, basename) ==
    IF d.node_drawer = <<>>
    THEN \* self.drawer.node_drawer[0] of an empty list
         Saved(d, "IndexError", d.node_drawer, d.edge_drawer,
               <<[name |-> basename \o "_nodes.csv", content |-> <<>>]>>)
    ELSE CsvSaved(d, basename,
                  TikzNodeDrawer_head(d.node_drawer[1]),
                  CsvRows("node", d.node_drawer, TikzNodeDrawer_head(d.node_drawer[1])),
                  IF d.edge_drawer = <<>> THEN Raise("IndexError")
                  ELSE TikzEdgeDrawer_head(d.edge_drawer[1]),
                  IF d.edge_drawer = <<>> THEN Raise("IndexError")
                  ELSE CsvRows("edge", d.edge_drawer, TikzEdgeDrawer_head(d.edge_drawer[1])))


\* os.path.exists(path) for a relative path: the empty path does not exist
Exists(fs, path) == path # "" /\ (fs.cwd \o "/" \o path) \in fs.dirs

\* os.chdir(path) for a relative path
ChDir(fs, path) == [fs EXCEPT !.cwd = @ \o "/" \o path]

\* lines 731-742: change to the output directory and save the tex file
\* there; the directory of the file name is used when it exists
InOutputDir(fs, filename) ==
    IF Exists(fs, filename.dir) THEN ChDir(fs, filename.dir) ELSE fs

\* lines 744-799: the compilers are tried in their order; the first that
\* runs ends the loop, the tex file is removed when clean_tex is set, and
\* the working directory is changed back.  When none runs CnetError is raised.
Compiled(fs, current_dir, filename, tex, clean_tex, compilers, works) ==
    IF tex.exc # "none"
    THEN [exc |-> tex.exc, obj |-> tex.obj, files |-> tex.files, cwd |-> fs.cwd]
    ELSE IF \E i \in 1..Len(compilers) : compilers[i] \in works
    THEN [exc |-> "none", obj |-> tex.obj,
          files |-> (IF clean_tex THEN <<>> ELSE tex.files)
                        \o <<[name |-> filename.base \o ".pdf", content |-> tex.files[1].content]>>,
          cwd |-> current_dir]
    ELSE [exc |-> "CnetError", obj |-> tex.obj, files |-> tex.files, cwd |-> fs.cwd]

\* Plot.save_pdf, lines 693-799.  fs is the file system of the process: its
\* working directory and the directories that exist; works is the set of
\* the compilers that run on this machine.
save_pdf(d, fs, filename, clean_tex, compiler, works) ==
    Compiled(InOutputDir(fs, filename), fs.cwd, filename,
             save_tex(d, filename.base \o ".tex", TRUE), clean_tex,
             IF compiler = None THEN <<"latexmk", "pdflatex">> ELSE <<compiler.s>>,
             works)

----------------------------------------------------------------------------
(* The inputs: networks, style values and keyword arguments *)

NodePool == <<"a", "b", "c", "d">>

\* node lists without repetition, and (node/edge list input only) the lists
\* in which a node id may come again
UniqueNodeLists == {SubSeq(NodePool, 1, n) : n \in 1..MaxNodes}
AnyNodeLists ==
    UNION {{ns \in [1..n -> {NodePool[i] : i \in 1..n}] :
               /\ ns[1] = NodePool[1]
               /\ \A i \in 2..n : \E j \in 1..i :
                     /\ ns[i] = NodePool[j]
                     /\ \A m \in 2..j : \E h \in 1..(i - 1) : ns[h] = NodePool[m - 1]}
           : n \in 1..MaxNodes}
NodeLists(kind) ==
    IF kind = "tuple" THEN AnyNodeLists
    ELSE IF kind = "igraph"
    THEN {[i \in 1..n |-> ToString(i - 1)] : n \in 1..MaxNodes}
    ELSE UniqueNodeLists

\* endpoints: a self-loop on the first node and the edges of the path
EdgePairs(ns) ==
    {<<ns[1], ns[1]>>} \cup {<<ns[i], ns[i + 1]>> : i \in 1..(Len(ns) - 1)}

\* edge lists; only a pathpy network cannot hold two edges between the same
\* pair of nodes
EdgeLists(kind, ns) ==
    UNION {{[i \in 1..n |-> [id |-> "e" \o ToString(i), u |-> ps[i][1], v |-> ps[i][2]]]
               : ps \in {qs \in [1..n -> EdgePairs(ns)] :
                            kind = "pathpy" =>
                                \A i, j \in 1..n : qs[i] = qs[j] => i = j}}
           : n \in 0..MaxEdges}

NetworksOf(kind) ==
    UNION {{[kind |-> kind, nodes |-> ns, edges |-> es, directed |-> dir]
               : es \in EdgeLists(kind, ns),
                 dir \in IF kind = "tuple" THEN {FALSE} ELSE BOOLEAN}
           : ns \in NodeLists(kind)}

OtherNetwork == [kind |-> "other", nodes |-> <<>>, edges |-> <<>>, directed |-> FALSE]

Networks ==
    UNION {NetworksOf(kind) : kind \in {"cnet", "networkx", "igraph", "pathpy", "tuple"}}
        \cup {OtherNetwork}

RGB == PyTuple(<<PyInt(255), PyInt(0), PyInt(0)>>)
ScalarValues ==
    {PyStr("red"), PyInt(1), PyFloat(5000), PyBool(TRUE), PyBool(FALSE), RGB}
ListValues ==
    UNION {{PyList(items) : items \in [1..n -> {PyStr("red"), PyInt(1), None}]}
           : n \in 0..MaxListLen}
OtherValues == {None, PySet(<<PyInt(1)>>)}

SetToSeq(S) ==
    CHOOSE q \in [1..Cardinality(S) -> S] : \A i, j \in 1..Cardinality(S) : q[i] = q[j] => i = j
\* the dicts with at most two of the entities, or a foreign key, as keys
DictValues(ids) ==
    {PyDict(SetToSeq(DOMAIN f), [i \in 1..Cardinality(DOMAIN f) |-> f[SetToSeq(DOMAIN f)[i]]])
        : f \in UNION {[K -> {PyStr("blue"), PyInt(2)}]
                          : K \in {L \in SUBSET (ids \cup {"zz"}) : Cardinality(L) <= 2}}}

StyleValues(ids) == ScalarValues \cup ListValues \cup DictValues(ids) \cup OtherValues

\* sequences of at most n entries of pool with pairwise distinct keys
KwdsOver(pool, n) ==
    UNION {{kw \in [1..m -> pool] : \A i, j \in 1..m : kw[i].k = kw[j].k => i = j}
           : m \in 0..n}

RenameKeys ==
    {"node_size", "vertex_size", "v_size", "n_size",
     "edge_width", "link_width", "l_width", "e_width",
     "l_label_size", "v_conv_size", "node_label_position", "node_margin_x",
     "margins", "margin", "canvas", "bbox", "figure_size", "units", "unit",
     "layout", "layout_seed", "seed", "keep_aspect_ratio"}
\* the value of the i-th keyword is the integer i
RenameInputs ==
    {[i \in 1..Len(ks) |-> [k |-> ks[i], v |-> PyInt(i)]]
        : ks \in UNION {{q \in [1..m -> RenameKeys] : \A i, j \in 1..m : q[i] = q[j] => i = j}
                           : m \in 0..MaxKwds}}

LayoutOptions ==
    {[k |-> "force", v |-> PyFloat(5000)],
     [k |-> "fixed", v |-> PyList(<<PyStr("a")>>)],
     [k |-> "iterations", v |-> PyInt(10)],
     [k |-> "threshold", v |-> PyFloat(10)],
     [k |-> "weight", v |-> PyStr("weight")],
     [k |-> "dimension", v |-> PyInt(3)],
     [k |-> "seed", v |-> PyInt(1)],
     [k |-> "positions", v |-> PyDict(<<"a">>, <<PyTuple(<<PyInt(0), PyInt(0)>>)>>)]}
DirectedValues ==
    {PyBool(FALSE), PyList(<<PyBool(FALSE)>>),
     PyDict(<<"e1", "(a,a)", "0">>, <<PyBool(FALSE), PyBool(FALSE), PyBool(FALSE)>>),
     None}
\* the layout keyword: not given, or the name of the random layout
LayoutGiven == {<<>>, <<[k |-> "layout", v |-> PyStr("random")]>>}

\* requests that style the edges
DrawEntries ==
    {[k |-> key, v |-> val] : key \in {"edge_directed", "e_directed"},
                              val \in DirectedValues}
        \cup {[k |-> "edge_color", v |-> PyStr("red")]}
DrawInputs == {given \o kw : given \in LayoutGiven, kw \in KwdsOver(DrawEntries, MaxDrawKwds)}

\* requests that set layout options, with and without the layout_ prefix
LayoutEntries ==
    LayoutOptions \cup {[k |-> "layout_" \o o.k, v |-> o.v] : o \in LayoutOptions}
LayoutInputs == {given \o kw : given \in LayoutGiven, kw \in KwdsOver(LayoutEntries, MaxLayoutKwds)}

\* requests that bend the edges: one factor for every edge, a list of
\* factors by position, a dict of factors by edge id
CurvedFactors == {PyInt(0), PyFloat(5000), PyFloat(-1000)}
CurvedValues ==
    CurvedFactors
        \cup {PyFloat(0), PyBool(FALSE), PyInt(1), PyInt(-2), PyFloat(1)}
        \cup UNION {{PyList(fs) : fs \in [1..n -> CurvedFactors]} : n \in 1..MaxEdges}
        \cup {PyDict(<<"e1", "(a,a)", "0">>, <<f, f, PyInt(0)>>) : f \in CurvedFactors}
CurveInputs ==
    {<<>>} \cup {<<[k |-> key, v |-> val]>> : key \in {"edge_curved", "e_curved"},
                                              val \in CurvedValues}

\* requests that give lengths: the unit families of convert_units, with
\* numbers and with values that are no numbers, and a style outside them
UnitEntries ==
    {[k |-> "node_size", v |-> PyFloat(5000)],
     [k |-> "node_label_distance", v |-> PyStr("far")],
     [k |-> "node_label_distance", v |-> PyInt(2)],
     [k |-> "node_label_size", v |-> PyList(<<PyInt(14)>>)],
     [k |-> "edge_arrow_size", v |-> PyFloat(2000)],
     [k |-> "edge_width", v |-> PyFloat(15000)],
     [k |-> "edge_width", v |-> PyStr("thick")],
     [k |-> "edge_loop_size", v |-> PyInt(1)],
     [k |-> "edge_loop_size", v |-> RGB],
     [k |-> "edge_label_size", v |-> PyList(<<PyInt(7), PyStr("large")>>)],
     [k |-> "edge_color", v |-> PyInt(1)],
     [k |-> "canvas", v |-> PyTuple(<<PyInt(8), PyInt(4)>>)],
     [k |-> "margin", v |-> None],
     [k |-> "margin", v |-> PyInt(1)],
     [k |-> "margin", v |-> PyDict(<<"top", "left">>, <<PyInt(1), PyFloat(5000)>>)],
     [k |-> "xshift", v |-> PyInt(1)],
     [k |-> "keep_aspect_ratio", v |-> PyBool(FALSE)]}
UnitsGiven ==
    {<<>>, <<[k |-> "units", v |-> PyStr("mm")]>>, <<[k |-> "unit", v |-> PyStr("px")]>>,
     <<[k |-> "units", v |-> PyTuple(<<PyStr("mm"), PyStr("pt")>>)]>>}
UnitInputs == {units \o <<e>> : units \in UnitsGiven, e \in UnitEntries}

\* a keyword argument that is not given
Absent == Scalar("absent", "", 0)
Given(key, value) == IF value = Absent THEN <<>> ELSE <<[k |-> key, v |-> value]>>

\* the keyword arguments of Layout(nodes, adjacency_matrix, **attr): a
\* layout name of either list, a name of neither, and the options of the
\* force-directed layout, given or not
EngineAttrs ==
    {Given("layout", name) \o Given("layout_force", k) \o Given("layout_fixed", fixed)
        \o Given("layout_positions", positions) \o Given("layout_iterations", iterations)
        \o Given("layout_seed", seed)
     : name \in {Absent, PyStr("rand"), PyStr("fr"), PyStr("FR"), PyStr("circular")},
       k \in {Absent, PyFloat(5000)},
       fixed \in {Absent, PyList(<<PyStr("a")>>)},
       positions \in {Absent, PyDict(<<"a">>, <<PyTuple(<<PyInt(0), PyInt(0)>>)>>)},
       iterations \in {Absent, PyInt(0), PyInt(MaxIterations)},
       seed \in {Absent, PyInt(1)}}

\* the networks handed to Layout: the nodes, and the adjacency matrix the
\* constructor of the drawer computed or None
EngineRequests ==
    UNION {{[nodes |-> ns, adjacency_matrix |-> A, attr |-> attr]
               : A \in {NoMatrix, SparseMatrix(Len(ns), Len(ns))}, attr \in EngineAttrs}
           : ns \in UniqueNodeLists}

\* requests for the force-directed layout of a cnet network, the one kind
\* of network whose adjacency matrix the constructor keeps
RenderNetworks == NetworksOf("cnet")
RenderInputs ==
    {Given("layout", name) \o Given("layout_force", k) \o Given("layout_fixed", fixed)
        \o Given("layout_iterations", iterations)
     : name \in {PyStr("fr"), PyStr("spring_layout")},
       k \in {Absent, PyFloat(5000)},
       fixed \in {Absent, PyList(<<PyStr("a")>>), PyList(<<PyStr("b")>>)},
       iterations \in {Absent, PyInt(MaxIterations)}}

\* the force fields of the iterations to come
ForceSeqs == UNION {[1..n -> Fields] : n \in 0..MaxIterations}


\* a graph of as many nodes as the sparse algorithm starts at
LargeNodes == [i \in 1..SparseThreshold |-> ToString(i)]

\* requests for the force-directed layout of that graph, with and without
\* its adjacency matrix
LargeRequests ==
    {[nodes |-> LargeNodes, adjacency_matrix |-> A,
      attr |-> Given("layout", name) \o Given("layout_force", k)
                  \o Given("layout_fixed", fixed) \o Given("layout_iterations", iterations)]
     : A \in {NoMatrix, SparseMatrix(SparseThreshold, SparseThreshold)},
       name \in {PyStr("fr")},
       k \in {Absent, PyFloat(5000)},
       fixed \in {Absent, PyList(<<PyStr("1")>>)},
       iterations \in {PyInt(0), PyInt(MaxIterations)}}


\* canvases: the sizes and margins of the tests, margins of every accepted
\* and of an unsupported shape, and node sizes for the automatic margin
CanvasSizes == {<<None, None>>, <<PyInt(6), PyInt(4)>>, <<PyInt(4), PyInt(3)>>}
MarginValues ==
    {None, PyInt(0), PyInt(1), PyFloat(5000), PyInt(3),
     PyDict(<<"top", "left", "bottom", "right">>,
            <<PyInt(2), PyInt(1), PyInt(2), PyFloat(5000)>>),
     PyDict(<<"top">>, <<PyInt(1)>>), PyDict(<<"left", "right">>, <<PyInt(3), PyInt(3)>>),
     PyDict(<<>>, <<>>), PyList(<<PyInt(1)>>), PyStr("wide")}
NodeSizes == {None, PyDict(<<"a", "b">>, <<PyInt(1), PyFloat(5000)>>)}
Canvases ==
    {Canvas(size[1], size[2], m, sizes).val
        : size \in CanvasSizes, m \in MarginValues, sizes \in NodeSizes}

\* layouts handed to fit: every placement of at most MaxNodes nodes on a
\* small grid, the square of the tests, and one with a value that is no
\* coordinate
Grid == {-1, 0, 2}
Point(x, y) == PyTuple(<<PyInt(x), PyInt(y)>>)
GridLayouts ==
    UNION {{[i \in 1..n |-> [k |-> NodePool[i], v |-> Point(ps[i][1], ps[i][2])]]
               : ps \in [1..n -> Grid \X Grid]}
           : n \in 0..MaxNodes}
Square ==
    <<[k |-> "a", v |-> Point(-1, -1)], [k |-> "b", v |-> Point(1, -1)],
      [k |-> "c", v |-> Point(1, 1)], [k |-> "d", v |-> Point(-1, 1)]>>
FitLayouts == GridLayouts \cup {Square, <<[k |-> "a", v |-> PyStr("left")]>>}


\* a coordinate for every node id a network of the pools can have
Coordinates ==
    PyDict(NodePool \o [i \in 1..Len(NodePool) |-> ToString(i - 1)],
           [i \in 1..(2 * Len(NodePool)) |-> PyTuple(<<PyInt(i % 3), PyInt((i * i) % 5)>>)])
\* the layout keyword: unset, a coordinate mapping, the name of a layout
IngestInputs ==
    {<<>>, <<[k |-> "layout", v |-> Coordinates]>>}
        \cup {<<[k |-> "layout", v |-> PyStr(name)]>>
                 : name \in {"random", "fr", "spring_layout", "circular"}}


\* the networks that are plotted: networkx graphs, directed and undirected
EmitNetworks == NetworksOf("networkx")

\* requests that colour the nodes, by a name or by an RGB tuple, with the
\* RGB flag unset, set for every node and set for the first node only
NodeColours ==
    {Given("node_color", colour) \o Given("node_rgb", flag)
        : colour \in {Absent, PyStr("red"), RGB},
          flag \in {Absent, PyBool(TRUE), PyDict(<<"a">>, <<PyBool(TRUE)>>)}}
\* requests that colour the edges and shape their arrows
EdgeStyles ==
    {Given("edge_color", colour) \o Given("edge_rgb", flag)
            \o Given("edge_arrow_size", length) \o Given("edge_arrow_width", width)
            \o Given("edge_style", style)
        : colour \in {Absent, RGB},
          flag \in {Absent, PyDict(<<"(a,a)">>, <<PyBool(TRUE)>>)},
          length \in {Absent, PyFloat(2000)},
          width \in {Absent, PyFloat(1000)},
          style \in {Absent, PyStr("dashed")}}
EmitInputs == NodeColours \cup EdgeStyles

\* the file names a plot is saved under, with and without a directory
PdfNames == {[dir |-> "", base |-> "network"], [dir |-> "out", base |-> "network"]}
\* the working directory of the process and the directories below it
WorkDir == "/work"
FileSystem == [cwd |-> WorkDir, dirs |-> {WorkDir, WorkDir \o "/out"}]

----------------------------------------------------------------------------
(* The calls *)

NoCall == [op |-> "none", arg |-> <<>>]
NoReturn == [exc |-> "none", val |-> <<>>]

\* a process that has drawn no random number yet
FreshEnv == [np_random |-> 0, forces |-> <<>>]

NoDrawer == [NewDrawer(OtherNetwork, <<>>) EXCEPT !.env = FreshEnv]

\* TikzNetworkDrawer(network, **kwds)
Construct(inputs) ==
    /\ pc = "new"
    /\ \E net \in Networks, kwds \in inputs :
          /\ self' = TikzNetworkDrawer(net, kwds)
          /\ pc' = IF self'.exc = "none" THEN "drawn" ELSE "failed"
          /\ env' = self'.env
    /\ UNCHANGED <<call, ret>>

\* drawer.format_node_value(value)
FormatNodeValue ==
    /\ pc = "drawn"
    /\ call = NoCall
    /\ \E value \in StyleValues({self.nodes[i] : i \in 1..Len(self.nodes)}) :
          /\ call' = [op |-> "format_node_value", arg |-> value]
          /\ ret' = format_node_value(self.nodes, value)
    /\ UNCHANGED <<pc, self, env>>

\* drawer.format_edge_value(value)
FormatEdgeValue ==
    /\ pc = "drawn"
    /\ call = NoCall
    /\ \E value \in StyleValues(DictKeys(self.edges)) :
          /\ call' = [op |-> "format_edge_value", arg |-> value]
          /\ ret' = format_edge_value(self.edges, value)
    /\ UNCHANGED <<pc, self, env>>

\* TikzNetworkDrawer.rename_attributes(**kwds)
RenameAttributes ==
    /\ pc = "static"
    /\ call = NoCall
    /\ \E kwds \in RenameInputs :
          /\ call' = [op |-> "rename_attributes", arg |-> kwds]
          /\ ret' = rename_attributes(kwds)
    /\ UNCHANGED <<pc, self, env>>

\* TikzNetworkDrawer.rename_attributes(**renamed), renamed what the last call returned
RenameAgain ==
    /\ pc = "static"
    /\ call.op = "rename_attributes"
    /\ ret.exc = "none"
    /\ call' = [op |-> "rename_again", arg |-> ret.val]
    /\ ret' = rename_attributes(ret.val)
    /\ UNCHANGED <<pc, self, env>>

\* TikzNetworkDrawer(network, **kwds) on a cnet network
Render ==
    /\ pc = "new"
    /\ \E net \in RenderNetworks, kwds \in RenderInputs :
          /\ self' = TikzNetworkDrawer(net, kwds)
          /\ pc' = IF self'.exc = "none" THEN "drawn" ELSE "failed"
          /\ env' = self'.env
    /\ UNCHANGED <<call, ret>>

\* Layout(nodes, adjacency_matrix, **attr).generate_layout(), as draw calls
\* it (lines 250-251)
NewLayout(req) == Layout(req.nodes, req.adjacency_matrix, req.attr)

\* what a run of the layout returned: the exception or the layout, the
\* arrays the iteration went through, and (a repeated run) what the first
\* run returned
NoRun == [exc |-> "none", val |-> <<>>, trace |-> <<>>, first |-> <<>>]

GenerateLayout ==
    /\ pc = "layout"
    /\ \E req \in EngineRequests :
          LET out == generate_layout(NewLayout(req), env.np_random, env.forces)
          IN  /\ self' = out.obj
              /\ call' = [op |-> "generate_layout", arg |-> req, np_random |-> env.np_random]
              /\ ret' = [exc |-> out.exc, val |-> out.val, trace |-> out.trace,
                         first |-> <<>>]
              /\ env' = [env EXCEPT !.np_random = out.np_random]
    /\ pc' = "ran"

\* np.random.rand() called by any other code of the process
DrawRandom ==
    /\ pc = "ran"
    /\ env' = [env EXCEPT !.np_random = RandAfter(@, 1, 1)]
    /\ pc' = "drew"
    /\ UNCHANGED <<self, call, ret>>

\* the same request once more, on a new Layout object
RepeatLayout ==
    /\ pc \in {"ran", "drew"}
    /\ LET out == generate_layout(NewLayout(call.arg), env.np_random, env.forces)
       IN  /\ self' = out.obj
           /\ ret' = [exc |-> out.exc, val |-> out.val, trace |-> out.trace,
                      first |-> <<[exc |-> ret.exc, val |-> ret.val]>>]
           /\ env' = [env EXCEPT !.np_random = out.np_random]
    /\ call' = [call EXCEPT !.np_random = env.np_random]
    /\ pc' = "reran"

\* line 155 of Layout.fruchterman_reingold, the sparse algorithm, which is
\* reached for a graph of SparseThreshold nodes or more.  What it computes
\* does not depend on the number of nodes, so here it runs on a Layout
\* object within the bounds, prepared as lines 130-149 leave it.
SparseLayout ==
    /\ pc = "layout"
    /\ \E req \in EngineRequests :
          LET prepared == Prepare(NewLayout(req), env.np_random)
              out == IF prepared.exc # "none" THEN prepared
                     ELSE Zipped(prepared.obj,
                                 sparse_fruchterman_reingold(prepared.obj,
                                                             prepared.np_random, env.forces))
          IN  /\ DictHas(req.attr, "layout")
              /\ DictGet(req.attr, "layout").s \in names_fr
              /\ self' = out.obj
              /\ call' = [op |-> "_sparse_fruchterman_reingold", arg |-> req,
                          np_random |-> env.np_random]
              /\ ret' = [exc |-> out.exc, val |-> out.val, trace |-> out.trace,
                         first |-> <<>>]
              /\ env' = [env EXCEPT !.np_random = out.np_random]
    /\ pc' = "solved"


\* lines 151-157 of Layout.fruchterman_reingold: the algorithms that ran, in
\* order, each with the exception it raised
Attempts(L, np_random, forces) ==
    IF Len(L.nodes) < SparseThreshold
    THEN <<[algorithm |-> "dense",
            exc |-> dense_fruchterman_reingold(L, np_random, forces).exc]>>
    ELSE IF sparse_fruchterman_reingold(L, np_random, forces).exc = "none"
    THEN <<[algorithm |-> "sparse", exc |-> "none"]>>
    ELSE <<[algorithm |-> "sparse",
            exc |-> sparse_fruchterman_reingold(L, np_random, forces).exc],
           [algorithm |-> "dense",
            exc |-> Solve(L, np_random, forces).exc]>>

\* what lines 151-157 ran for a request, <<>> when lines 130-149 raised
AttemptsOf(prepared, forces) ==
    IF prepared.exc # "none" THEN <<>>
    ELSE Attempts(prepared.obj, prepared.np_random, forces)

\* Layout(nodes, adjacency_matrix, **attr).generate_layout() on a graph of
\* SparseThreshold nodes
LargeLayout ==
    /\ pc = "layout"
    /\ \E req \in LargeRequests :
          LET out == generate_layout(NewLayout(req), env.np_random, env.forces)
          IN  /\ self' = out.obj
              /\ call' = [op |-> "generate_layout", arg |-> req,
                          np_random |-> env.np_random,
                          attempts |-> AttemptsOf(Prepare(NewLayout(req), env.np_random),
                                                  env.forces)]
              /\ ret' = [exc |-> out.exc, val |-> out.val, trace |-> out.trace,
                         first |-> <<>>]
              /\ env' = [env EXCEPT !.np_random = out.np_random]
    /\ pc' = "ran"


\* canvas.fit(layout, keep_aspect_ratio=...)
CanvasFit ==
    /\ pc = "canvas"
    /\ call = NoCall
    /\ \E layout \in FitLayouts, keep_aspect_ratio \in BOOLEAN :
          /\ call' = [op |-> "fit", arg |-> layout, keep_aspect_ratio |-> keep_aspect_ratio]
          /\ ret' = Canvas_fit(self, layout, keep_aspect_ratio)
    /\ UNCHANGED <<pc, self, env>>

\* canvas.margins()
CanvasMargins ==
    /\ pc = "canvas"
    /\ call = NoCall
    /\ call' = [op |-> "margins", arg |-> self.margins]
    /\ ret' = Canvas_margins(self)
    /\ UNCHANGED <<pc, self, env>>


\* what a save method returned, and the call before it
NoSave == [op |-> "none", exc |-> "none", files |-> <<>>]
Before == IF call.op \in {"save_tex", "save_csv", "save_pdf"}
          THEN [op |-> call.op, exc |-> ret.exc, files |-> ret.val] ELSE NoSave

\* Plot(network, **kwds), lines 589-603
NewPlot ==
    /\ pc = "new"
    /\ \E net \in EmitNetworks, kwds \in EmitInputs :
          /\ self' = TikzNetworkDrawer(net, kwds)
          /\ pc' = IF self'.exc = "none" THEN "drawn" ELSE "failed"
          /\ env' = self'.env
    /\ UNCHANGED <<call, ret>>

\* plot.save_tex('network.tex'): a first and a second save of one plot
SaveTex ==
    /\ pc \in {"drawn", "saved"}
    /\ LET out == save_tex(self, "network.tex", TRUE)
       IN  /\ self' = out.obj
           /\ call' = [op |-> "save_tex", arg |-> "network.tex", before |-> Before]
           /\ ret' = [exc |-> out.exc, val |-> out.files]
    /\ pc' = IF pc = "drawn" THEN "saved" ELSE "resaved"
    /\ UNCHANGED env

\* plot.save_csv('network.csv')
SaveCsv ==
    /\ pc \in {"drawn", "saved"}
    /\ LET out == save_csv(self, "network")
       IN  /\ self' = out.obj
           /\ call' = [op |-> "save_csv", arg |-> "network.csv", before |-> Before]
           /\ ret' = [exc |-> out.exc, val |-> out.files]
    /\ pc' = IF pc = "drawn" THEN "saved" ELSE "resaved"
    /\ UNCHANGED env

\* plot.save_pdf(filename) on a machine where the compilers of works run
SavePdf ==
    /\ pc \in {"drawn", "saved"}
    /\ \E filename \in PdfNames, works \in {{}, {"pdflatex"}} :
          LET out == save_pdf(self, env.fs, filename, TRUE, None, works)
          IN  /\ self' = out.obj
              /\ call' = [op |-> "save_pdf", arg |-> filename, before |-> Before,
                          cwd |-> env.fs.cwd, works |-> works]
              /\ ret' = [exc |-> out.exc, val |-> out.files]
              /\ env' = [env EXCEPT !.fs.cwd = out.cwd]
    /\ pc' = IF pc = "drawn" THEN "saved" ELSE "resaved"

----------------------------------------------------------------------------
(* The specifications *)

\* a render request: the constructor runs on a network and keyword arguments
Init ==
    /\ pc = "new"
    /\ env = FreshEnv
    /\ self = NoDrawer
    /\ call = NoCall
    /\ ret = NoReturn
Next == Construct(DrawInputs)
Spec == Init /\ [][Next]_vars

\* a render request that sets layout options
NextLayout == Construct(LayoutInputs)
SpecLayout == Init /\ [][NextLayout]_vars

\* the two resolvers called on a drawer built without keyword arguments
InitFormat ==
    /\ pc = "drawn"
    /\ env = FreshEnv
    /\ \E net \in Networks : self = TikzNetworkDrawer(net, <<>>)
    /\ self.exc = "none"
    /\ call = NoCall
    /\ ret = NoReturn
NextFormat == FormatNodeValue \/ FormatEdgeValue
SpecFormat == InitFormat /\ [][NextFormat]_vars

\* the static method rename_attributes, called on its own
InitRename ==
    /\ pc = "static"
    /\ env = FreshEnv
    /\ self = NoDrawer
    /\ call = NoCall
    /\ ret = NoReturn
NextRename == RenameAttributes \/ RenameAgain
SpecRename == InitRename /\ [][NextRename]_vars

\* the layout on its own: a Layout object, run once, and run a second time
\* after other code may have drawn a random number
InitEngine ==
    /\ pc = "layout"
    /\ self = Layout(<<>>, NoMatrix, <<>>)
    /\ call = NoCall
    /\ ret = NoRun
    /\ env \in {[np_random |-> 0, forces |-> forces] : forces \in ForceSeqs}

NextEngine == GenerateLayout \/ DrawRandom \/ RepeatLayout \/ SparseLayout
SpecEngine == InitEngine /\ [][NextEngine]_vars

\* the constructor, called for a force-directed layout
InitRender ==
    /\ pc = "new"
    /\ env \in {[np_random |-> 0, forces |-> forces] : forces \in ForceSeqs}
    /\ self = NoDrawer
    /\ call = NoCall
    /\ ret = NoReturn

NextRender == Render
SpecRender == InitRender /\ [][NextRender]_vars

\* the constructor, called with requests that give lengths
NextUnits == Construct(UnitInputs)
SpecUnits == Init /\ [][NextUnits]_vars

\* the constructor, called with requests that bend the edges
NextCurve == Construct(CurveInputs)
SpecCurve == Init /\ [][NextCurve]_vars


\* the layout of a graph large enough for the sparse algorithm
NextSparse == LargeLayout
SpecSparse == InitEngine /\ [][NextSparse]_vars


\* a Canvas object on its own, and one call of fit or of margins on it
InitCanvas ==
    /\ pc = "canvas"
    /\ env = FreshEnv
    /\ self \in Canvases
    /\ call = NoCall
    /\ ret = NoReturn
NextCanvas == CanvasFit \/ CanvasMargins
SpecCanvas == InitCanvas /\ [][NextCanvas]_vars


\* a render request for a network of every kind, with the layout keyword
\* unset, a coordinate mapping or a name
NextIngest == Construct(IngestInputs)
SpecIngest == Init /\ [][NextIngest]_vars


\* a plot that is made and saved twice, in a process with a file system
InitEmit ==
    /\ pc = "new"
    /\ env = [np_random |-> 0, forces |-> <<>>, fs |-> FileSystem]
    /\ self = NoDrawer
    /\ call = NoCall
    /\ ret = NoReturn
NextEmit == NewPlot \/ SaveTex \/ SaveCsv \/ SavePdf
SpecEmit == InitEmit /\ [][NextEmit]_vars

----------------------------------------------------------------------------
(* Properties of format_node_value and format_edge_value (SpecFormat) *)

Formatted == call.op \in {"format_node_value", "format_edge_value"}

\* the entities the call iterates over, in iteration order
Entities == IF call.op = "format_node_value" THEN self.nodes ELSE EdgeIds(self.edges)
EntitySet == {Entities[i] : i \in 1..Len(Entities)}

\* the returned mapping has one entry per entity and no other key
OneEntryPerEntity ==
    /\ ret.exc = "none"
    /\ DictKeys(ret.val) = EntitySet
    /\ Len(ret.val) = Cardinality(EntitySet)

\* C1: a scalar style value (str, int, float, bool, tuple) is broadcast: the
\* mapping returned has exactly the entities as keys and maps each of them
\* to that value.
C1_ScalarBroadcast ==
    (Formatted /\ call.arg.t \in {"str", "int", "float", "bool", "tuple"}) =>
        /\ OneEntryPerEntity
        /\ \A i \in 1..Len(ret.val) : ret.val[i].v = call.arg

C1_Witness ==
    /\ call.op = "format_node_value"
    /\ call.arg = RGB
    /\ Len(self.nodes) = 2
    /\ ret = Return(<<[k |-> self.nodes[1], v |-> RGB], [k |-> self.nodes[2], v |-> RGB]>>)

\* C2: a list style value is assigned by position in iteration order (an id
\* that comes again in the iteration keeps the element of its last
\* position); an entity past the end of the list maps to None, and elements
\* past the entity count are ignored.
C2_ListPositional ==
    (Formatted /\ call.arg.t = "list") =>
        /\ OneEntryPerEntity
        /\ \A i \in 1..Len(Entities) :
              (\A j \in (i + 1)..Len(Entities) : Entities[j] # Entities[i]) =>
                  DictGet(ret.val, Entities[i]) =
                      IF i <= Len(call.arg.items) THEN call.arg.items[i] ELSE None
        /\ \A i \in 1..Len(Entities) :
              i > Len(call.arg.items) => DictGet(ret.val, Entities[i]) = None

C2_Witness ==
    /\ call.op = "format_edge_value"
    /\ call.arg = PyList(<<PyStr("red")>>)
    /\ Len(self.edges) = 2
    /\ ret = Return(<<[k |-> self.edges[1].k, v |-> PyStr("red")], [k |-> self.edges[2].k, v |-> None]>>)

\* C3: a dict style value is looked up by id: an entity that is a key maps
\* to the dict's value, any other entity to None, and a key that is no
\* entity does not come up in the result.
C3_DictLookup ==
    (Formatted /\ call.arg.t = "dict") =>
        /\ OneEntryPerEntity
        /\ \A n \in EntitySet :
              IF \E j \in 1..Len(call.arg.keys) : call.arg.keys[j] = n
              THEN \E j \in 1..Len(call.arg.keys) :
                      /\ call.arg.keys[j] = n
                      /\ DictGet(ret.val, n) = call.arg.items[j]
              ELSE DictGet(ret.val, n) = None

C3_Witness ==
    /\ call.op = "format_node_value"
    /\ self.nodes = <<"a", "b">>
    /\ DictItem(call.arg, "zz") = PyInt(2)
    /\ DictItem(call.arg, "b") = PyStr("blue")
    /\ ret = Return(<<[k |-> "a", v |-> None], [k |-> "b", v |-> PyStr("blue")]>>)

\* C4: a style value that is no scalar, list or dict (None, a set) makes the
\* call raise CnetError, and no mapping is returned.
C4_UnsupportedShape ==
    (Formatted /\ call.arg.t \notin {"str", "int", "float", "bool", "tuple", "list", "dict"}) =>
        ret = Raise("CnetError")

C4_Witness ==
    /\ call.op = "format_edge_value"
    /\ call.arg.t = "set"
    /\ Len(self.edges) = 2
    /\ ret.exc = "CnetError"

----------------------------------------------------------------------------
(* Properties of rename_attributes (SpecRename) *)

Renamed == call.op = "rename_attributes" /\ ret.exc = "none"

StartsWith(key, prefix) ==
    Len(key) >= Len(prefix) /\ SubSeq(key, 1, Len(prefix)) = prefix

\* key with its leading synonym token replaced by the canonical word, for
\* every synonym token the key begins with
PrefixRewrites(key) ==
    UNION {{names[a].attr \o SubSeq(key, Len(names[a].name_list[m]) + 1, Len(key)) :
               m \in {h \in 1..Len(names[a].name_list) :
                         StartsWith(key, names[a].name_list[h])}}
           : a \in 1..Len(names)}

\* C5 (as claimed): a keyword is rewritten only if it begins with a synonym
\* token, and only that leading token is replaced; so every key returned is
\* the key given, or the key given with its leading token replaced.
C5_PrefixOnly ==
    Renamed =>
        \A i \in 1..Len(ret.val) :
            ret.val[i].k \in {call.arg[ret.val[i].v.n].k}
                                \cup PrefixRewrites(call.arg[ret.val[i].v.n].k)

\* a keyword already in canonical form
Canonical(key) ==
    \/ StartsWith(key, "node_")
    \/ StartsWith(key, "edge_")
    \/ key \in {"margins", "canvas", "units"}

\* C6 (as claimed): a keyword already in canonical form is still a key of
\* the result, and renaming the result again returns it unchanged.
C6_CanonicalUnchanged ==
    /\ Renamed =>
          \A i \in 1..Len(call.arg) :
              Canonical(call.arg[i].k) => DictHas(ret.val, call.arg[i].k)
    /\ call.op = "rename_again" => ret = Return(call.arg)

\* the canonical keyword of the attribute a keyword addresses
IntendedKey(key) ==
    IF Canonical(key) \/ PrefixRewrites(key) = {} THEN key
    ELSE CHOOSE c \in PrefixRewrites(key) : TRUE

\* C7 (as claimed): when a node or edge attribute is given under its
\* canonical keyword and under an alias, the canonical key of the result
\* holds the value of the keyword that came last.
C7_LastKeywordWins ==
    Renamed =>
        \A i, j \in 1..Len(call.arg) :
            ( /\ i < j
              /\ IntendedKey(call.arg[i].k) = IntendedKey(call.arg[j].k)
              /\ Canonical(call.arg[i].k) # Canonical(call.arg[j].k)
              /\ \/ StartsWith(IntendedKey(call.arg[j].k), "node_")
                 \/ StartsWith(IntendedKey(call.arg[j].k), "edge_")
              /\ \A h \in (j + 1)..Len(call.arg) :
                    IntendedKey(call.arg[h].k) # IntendedKey(call.arg[j].k) )
            => /\ DictHas(ret.val, IntendedKey(call.arg[j].k))
               /\ DictGet(ret.val, IntendedKey(call.arg[j].k)) = call.arg[j].v

----------------------------------------------------------------------------
(* Properties of the constructor and of draw (Spec) *)

BareOptions ==
    {"force", "fixed", "iterations", "threshold", "weight", "dimension",
     "seed", "positions"}

\* the keyword arguments with every layout option spelled layout_<option>
WithLayoutPrefix(kwds) ==
    [i \in 1..Len(kwds) |->
        IF kwds[i].k \in BareOptions
        THEN [k |-> "layout_" \o kwds[i].k, v |-> kwds[i].v]
        ELSE kwds[i]]

\* C8 (as claimed): a layout option given without the layout_ prefix sets
\* up the Layout object as the same option given with the prefix does.
C8_LayoutPrefixOptional ==
    ( /\ pc = "drawn"
      /\ \A i, j \in 1..Len(self.attributes) :
            WithLayoutPrefix(self.attributes)[i].k = WithLayoutPrefix(self.attributes)[j].k => i = j )
    => self.layout_options =
          TikzNetworkDrawer(self.network, WithLayoutPrefix(self.attributes)).layout_options

DirectedKeys == {"edge_directed", "link_directed", "l_directed", "e_directed"}
\* the edge_directed values the caller gave, in keyword order
GivenDirected == SelectSeq(self.attributes, LAMBDA e : e.k \in DirectedKeys)

\* what a style value gives the i-th entity, whose id is n
Resolved(value, i, n) ==
    IF value.t = "list"
    THEN IF i <= Len(value.items) THEN value.items[i] ELSE None
    ELSE IF value.t = "dict"
    THEN IF \E j \in 1..Len(value.keys) : value.keys[j] = n
         THEN value.items[CHOOSE j \in 1..Len(value.keys) : value.keys[j] = n]
         ELSE None
    ELSE value

\* C9: after draw, a directed network without an edge_directed value from
\* the caller has edge_directed True on every edge; an edge_directed value
\* from the caller is kept as resolved, whatever the network.
C9_DirectedDefault ==
    pc = "drawn" =>
        IF GivenDirected = <<>>
        THEN self.directed =>
                /\ DictHas(self.edge_attributes, "edge_directed")
                /\ DictGet(self.edge_attributes, "edge_directed") =
                      [i \in 1..Len(self.edges) |-> [k |-> self.edges[i].k, v |-> PyBool(TRUE)]]
        ELSE /\ DictHas(self.edge_attributes, "edge_directed")
             /\ DictGet(self.edge_attributes, "edge_directed") =
                   [i \in 1..Len(self.edges) |->
                       [k |-> self.edges[i].k,
                        v |-> Resolved(GivenDirected[Len(GivenDirected)].v, i, self.edges[i].k)]]

C9_Witness ==
    /\ pc = "drawn"
    /\ self.directed
    /\ Len(self.edges) = 2
    /\ self.attributes = <<[k |-> "e_directed", v |-> PyBool(FALSE)]>>
    /\ DictGet(self.edge_attributes, "edge_directed") =
          <<[k |-> self.edges[1].k, v |-> PyBool(FALSE)], [k |-> self.edges[2].k, v |-> PyBool(FALSE)]>>

\* C10 (as claimed): the drawer holds one edge record per edge of the
\* network given, with that edge's endpoints, self-loops and edges between
\* the same pair of nodes included.
C10_OneRecordPerEdge ==
    pc = "drawn" =>
        /\ Len(self.edge_drawer) = Len(self.network.edges)
        /\ \A i \in 1..Len(self.edge_drawer) :
              /\ self.edge_drawer[i].u = self.network.edges[i].u
              /\ self.edge_drawer[i].v = self.network.edges[i].v

\* a sequence in which some element comes twice
HasDuplicate(ns) == \E i, j \in 1..Len(ns) : i # j /\ ns[i] = ns[j]

\* C11: a network whose node sequence holds the same node id twice is
\* rejected: whenever the constructor succeeds, self.nodes has no
\* duplicates and is the node sequence of the input, in its order.
C11_DuplicateNodesRejected ==
    pc = "drawn" =>
        /\ ~HasDuplicate(self.nodes)
        /\ self.nodes = self.network.nodes

----------------------------------------------------------------------------
(* Properties of curve (SpecCurve) *)

\* the drawer as draw finds it: the network ingested
Ingested == Ingest(NewDrawer(self.network, self.attributes))

\* edge_attributes as the loop of draw over the keywords leaves them: what
\* convert_units and curve are given
Assigned == AssignAttributes(Ingested)

\* the constructor was called with a network it ingests
Requested == pc # "new" /\ Ingested.exc = "none"

\* the keyword arguments under their canonical names
Keywords ==
    IF rename_attributes(self.attributes).exc = "none"
    THEN rename_attributes(self.attributes).val ELSE <<>>

\* the keyword arguments whose value is a list shorter than the number of
\* nodes (node_ attributes) or edges (edge_ attributes)
ShortLists ==
    LET kwds == Keywords
    IN  {i \in 1..Len(kwds) :
            /\ kwds[i].v.t = "list"
            /\ \/ StartsWith(kwds[i].k, "node_") /\ Len(kwds[i].v.items) < Len(Ingested.nodes)
               \/ StartsWith(kwds[i].k, "edge_") /\ Len(kwds[i].v.items) < Len(Ingested.edges)}

\* C12: a request in which a node or edge attribute is a list shorter than
\* the number of entities completes without error, and the entities past
\* the end of the list carry None for that attribute in their records.
C12_ShortListCompletes ==
    (Requested /\ ShortLists # {}) =>
        /\ pc = "drawn"
        /\ \A i \in ShortLists :
              LET kw == Keywords[i]
              IN  /\ StartsWith(kw.k, "edge_") =>
                        \A e \in (Len(kw.v.items) + 1)..Len(self.edge_drawer) :
                            DictGet(self.edge_drawer[e].attributes, kw.k) = None
                  /\ StartsWith(kw.k, "node_") =>
                        \A n \in (Len(kw.v.items) + 1)..Len(self.node_drawer) :
                            DictGet(self.node_drawer[n].attributes, kw.k) = None

\* the map curve was given and the map it returned
CurveGiven == DictGet(Assigned.edge_attributes, "edge_curved")
CurveReturned == DictGet(self.edge_attributes, "edge_curved")
Curved == pc = "drawn" /\ DictHas(Assigned.edge_attributes, "edge_curved")

\* the factor is 0: curved == 0
ZeroFactor(value) == IsNumber(value) /\ value.n = 0

\* C13: curve returns a map with exactly one entry per edge of edge_curved,
\* and every edge whose factor is 0 gets the angle 0 (the int 0 of line 438)
\* without its angle being computed.
C13_OneEntryPerEdgeZeroStraight ==
    Curved =>
        /\ Len(CurveReturned) = Len(CurveGiven)
        /\ \A i \in 1..Len(CurveGiven) :
              /\ CurveReturned[i].k = CurveGiven[i].k
              /\ ZeroFactor(CurveGiven[i].v) =>
                    /\ CurveReturned[i].v = PyInt(0)
                    /\ \A j \in 1..Len(self.angle_computed) :
                          self.angle_computed[j] # CurveGiven[i].k

\* curve ran on an edge with the factor 0 and on an edge with another factor
C13_Witness ==
    /\ Curved
    /\ \E i, j \in 1..Len(CurveGiven) :
          /\ ZeroFactor(CurveGiven[i].v) /\ CurveReturned[i].v = PyInt(0)
          /\ ~ZeroFactor(CurveGiven[j].v) /\ CurveReturned[j].v.n # 0

\* C14 (as claimed): for every edge with a nonzero factor c the angle
\* returned by curve has the sign of c.
C14_AngleHasSignOfFactor ==
    Curved =>
        \A i \in 1..Len(CurveGiven) :
            ~ZeroFactor(CurveGiven[i].v) =>
                Sign(CurveReturned[i].v.n) = Sign(CurveGiven[i].v.n)

\* C14 (amended): for every edge with a nonzero factor c the angle returned
\* by curve has the sign opposite to that of c: a positive factor gives a
\* negative angle, a negative factor a positive angle.
C14_AngleHasOppositeSign ==
    Curved =>
        \A i \in 1..Len(CurveGiven) :
            ~ZeroFactor(CurveGiven[i].v) =>
                Sign(CurveReturned[i].v.n) = -Sign(CurveGiven[i].v.n)

\* curve ran on an edge with a positive and on an edge with a negative factor
C14_Witness ==
    /\ Curved
    /\ \E i, j \in 1..Len(CurveGiven) :
          /\ CurveGiven[i].v.n > 0 /\ CurveReturned[i].v.n < 0
          /\ CurveGiven[j].v.n < 0 /\ CurveReturned[j].v.n > 0

----------------------------------------------------------------------------
(* Properties of convert_units (SpecUnits) *)

\* the drawer as convert_units finds it and as it leaves it
Unconverted == DefaultDirected(Assigned)
Converted == convert_units(Unconverted)

\* the attribute families of the unit table
NodeFamilies == {"node_size", "node_label_distance", "node_label_size"}
EdgeFamilies ==
    {"edge_arrow_size", "edge_arrow_width", "edge_width", "edge_loop_size",
     "edge_label_size"}
GeneralFamilies == {"canvas", "margins", "xshift", "yshift"}

\* a map of attribute maps is as before but for the numbers of the families
MapsKept(before, after, families) ==
    /\ Len(after) = Len(before)
    /\ \A i \in 1..Len(before) :
          /\ after[i].k = before[i].k
          /\ before[i].k \notin families => after[i].v = before[i].v
          /\ Len(after[i].v) = Len(before[i].v)
          /\ \A j \in 1..Len(before[i].v) :
                /\ after[i].v[j].k = before[i].v[j].k
                /\ ~IsNumber(before[i].v[j].v) => after[i].v[j].v = before[i].v[j].v

\* the general attributes are as before but for the numbers of the families
GeneralKept(before, after) ==
    /\ Len(after) = Len(before)
    /\ \A i \in 1..Len(before) :
          /\ after[i].k = before[i].k
          /\ (before[i].k \notin GeneralFamilies \/ before[i].v.t \in {"str", "NoneType"})
                => after[i].v = before[i].v

\* C15: convert_units changes only the numbers of the families of the unit
\* table: it leaves every value that is no number (a string, None, a
\* tuple) and every attribute outside the families as it was, and every
\* attribute map keeps its keys.
C15_OnlyNumbersConverted ==
    (Requested /\ Unconverted.exc = "none") =>
        /\ Converted.exc = "none"
        /\ MapsKept(Unconverted.node_attributes, Converted.node_attributes, NodeFamilies)
        /\ MapsKept(Unconverted.edge_attributes, Converted.edge_attributes, EdgeFamilies)
        /\ GeneralKept(Unconverted.general_attributes, Converted.general_attributes)

----------------------------------------------------------------------------
(* Properties of Layout (SpecEngine) *)

\* the layout name of the request, None when none was given
LayoutName == DictGetDefault(call.arg.attr, "layout", None)
NamesRandom == LayoutName = None \/ LayoutName.s \in names_rand
NamesForce == LayoutName # None /\ LayoutName.s \in names_fr

\* generate_layout has run, once or for the second time
Generated == pc \in {"ran", "drew", "reran"}

\* C16: generate_layout gives the random layout for the name None and for
\* the names of the random layout, the Fruchterman-Reingold layout for the
\* names of the force-directed layout, and for every other name it raises
\* the layout error of the package (CnetError) and returns no layout.
C16_StrategyByName ==
    Generated =>
        LET L == NewLayout(call.arg)
            rand == random(L, call.np_random)
            fr == fruchterman_reingold(L, call.np_random, env.forces)
        IN  /\ NamesRandom => ret.exc = rand.exc /\ ret.val = rand.val
            /\ NamesForce => ret.exc = fr.exc /\ ret.val = fr.val
            /\ (~NamesRandom /\ ~NamesForce) => ret.exc = "CnetError"

\* the iteration of the force-directed layout has run
Iterated == pc \in {"ran", "drew", "reran", "solved"} /\ ret.trace # <<>>

\* the rows of the nodes that are held fixed
HeldRows == IF self.fixed = None THEN {} ELSE FixedRows(self.fixed)

\* C17: in the force-directed layout every fixed node has after every
\* iteration the coordinate it had before the first one.
C17_FixedNodesStay ==
    Iterated =>
        \A i \in 1..Len(ret.trace), r \in HeldRows :
            r <= Len(ret.trace[i]) => ret.trace[i][r] = ret.trace[1][r]

\* two iterations have run with a fixed node, and a free node has moved
C17_Witness ==
    /\ Iterated
    /\ call.op = "generate_layout"
    /\ Len(ret.trace) >= 3
    /\ HeldRows # {}
    /\ \E r \in 1..Len(ret.trace[1]) :
          r \notin HeldRows /\ ret.trace[Len(ret.trace)][r] # ret.trace[1][r]

\* C19: two runs of the force-directed layout on the same nodes, the same
\* adjacency matrix and the same explicit seed return the same coordinate
\* for every node, whatever random numbers were drawn before each run.
C19_SameSeedSameLayout ==
    (/\ pc = "reran"
     /\ NamesForce
     /\ DictHas(call.arg.attr, "layout_seed")
     /\ ret.exc = "none"
     /\ ret.first[1].exc = "none") => ret.val = ret.first[1].val

\* a coordinate given by the caller as a row of an array
GivenRow(value) == [c \in 1..Len(value.items) |-> Tenthousandths(value.items[c]) \div 10]

\* C20: fruchterman_reingold returns a layout for every combination of
\* positions, fixed and k, given or not: a given position is the start
\* coordinate of its node.
C20_CompletesForEveryCombination ==
    (/\ pc = "ran"
     /\ NamesForce
     /\ call.arg.adjacency_matrix.kind # "None") =>
        /\ ret.exc = "none"
        /\ LET positions == DictGetDefault(call.arg.attr, "layout_positions", PyDict(<<>>, <<>>))
           IN  \A i \in 1..Len(positions.keys) :
                   ret.trace[1][NodeIndex(call.arg.nodes, positions.keys[i]) + 1]
                       = GivenRow(positions.items[i])

----------------------------------------------------------------------------
(* Properties of the layout of a drawer (SpecRender) *)

\* the node ids of layout_fixed, given as a list
NamedFixed ==
    LET fixed == DictGetDefault(self.attributes, "layout_fixed", PyList(<<>>))
    IN  {fixed.items[i].s : i \in 1..Len(fixed.items)}

\* the rows of the nodes of a set of node ids
RowsOf(ids) == {i \in 1..Len(self.nodes) : self.nodes[i] \in ids}

\* C18: when layout_fixed names a proper subset of the nodes as a list of
\* node ids, the layout holds exactly those nodes fixed: the indices kept
\* from the updates are those of the named nodes.
C18_ExactlyNamedNodesFixed ==
    (/\ pc = "drawn"
     /\ NamedFixed # {}
     /\ NamedFixed \subseteq {self.nodes[i] : i \in 1..Len(self.nodes)}
     /\ RowsOf(NamedFixed) # 1..Len(self.nodes)) =>
        FixedRows(self.engine.fixed) = RowsOf(NamedFixed)


----------------------------------------------------------------------------
(* Properties of the choice of the algorithm (SpecSparse) *)

\* the sparse algorithm was selected and raised
SparseFailed ==
    /\ call.op = "generate_layout"
    /\ Len(call.arg.nodes) >= SparseThreshold
    /\ call.attempts # <<>>
    /\ call.attempts[1].algorithm = "sparse"
    /\ call.attempts[1].exc # "none"

\* C21: when the sparse algorithm is selected (SparseThreshold nodes or more)
\* and fails, the caller gets that failure as an error and the dense
\* algorithm is not run in its place.
C21_SparseFailureReported ==
    SparseFailed =>
        /\ Len(call.attempts) = 1
        /\ ret.exc = call.attempts[1].exc


----------------------------------------------------------------------------
(* Properties of the iteration (SpecEngine) *)

\* the number of iterations the run executed
Executed == Len(ret.trace) - 1

\* delta_layout of iteration i: what it added to the array
StepDelta(i) ==
    [r \in 1..Len(ret.trace[i]) |->
        [c \in 1..Len(ret.trace[i][r]) |-> ret.trace[i + 1][r][c] - ret.trace[i][r][c]]]

\* the error of iteration i was below the threshold
StepConverged(i) == Converged(StepDelta(i), Len(ret.trace[1]), self.threshold)

\* C22: the force-directed iteration executes at most `iterations`
\* iterations (50 when not given) and stops after the first iteration whose
\* error is below the threshold: no iteration before the last one was below
\* it, and a run that ended before the cap ended on one that was.
C22_IterationBounded ==
    Iterated =>
        /\ Executed <= self.iterations.n
        /\ \A i \in 1..(Executed - 1) : ~StepConverged(i)
        /\ (ret.exc = "none" /\ Executed < self.iterations.n) =>
              (Executed >= 1 /\ StepConverged(Executed))

\* a run with the default cap of 50 that moved the nodes in its first
\* iteration and stopped after its second, which was below the threshold
C22_Witness ==
    /\ Iterated
    /\ ret.exc = "none"
    /\ self.iterations = PyInt(50)
    /\ Executed = 2
    /\ ret.trace[2] # ret.trace[1]
    /\ StepConverged(2)


----------------------------------------------------------------------------
(* Properties of Canvas (SpecCanvas); lengths in ten-thousandths *)

\* fit returned the fitted layout of a layout with at least one node
Fitted == call.op = "fit" /\ ret.exc = "none" /\ call.arg # <<>>

\* the drawable rectangle
Sides == Canvas_margins(self).val
DrawableWidth == self.width - Sides.left - Sides.right
DrawableHeight == self.height - Sides.top - Sides.bottom

\* coordinate c of node i before and after fit
Data(i, c) == Tenthousandths(call.arg[i].v.items[c])
Fit(i, c) == Tenthousandths(ret.val[i].v.items[c])
DataLow(c) == Min({Data(i, c) : i \in 1..Len(call.arg)})
DataHigh(c) == Max({Data(i, c) : i \in 1..Len(call.arg)})
FitLow(c) == Min({Fit(i, c) : i \in 1..Len(ret.val)})
FitHigh(c) == Max({Fit(i, c) : i \in 1..Len(ret.val)})

\* the data has an extent on both axes, so that both ratios exist
HasExtent == DataHigh(1) > DataLow(1) /\ DataHigh(2) > DataLow(2)

\* drawable width / data width <= drawable height / data height
WidthLimits ==
    DrawableWidth * (DataHigh(2) - DataLow(2)) <= DrawableHeight * (DataHigh(1) - DataLow(1))

\* the smaller of the two ratios, as a fraction
SmallerRatio ==
    IF WidthLimits THEN [num |-> DrawableWidth, den |-> DataHigh(1) - DataLow(1)]
    ELSE [num |-> DrawableHeight, den |-> DataHigh(2) - DataLow(2)]

\* every fitted coordinate lies inside the drawable rectangle
InsideDrawable ==
    \A i \in 1..Len(ret.val) :
        /\ Sides.left <= Fit(i, 1) /\ Fit(i, 1) <= Sides.left + DrawableWidth
        /\ Sides.bottom <= Fit(i, 2) /\ Fit(i, 2) <= Sides.bottom + DrawableHeight

\* both axes are scaled by the smaller ratio: the distance of a node from
\* the low end of the bounding box is the distance before fit times the
\* ratio, to the last digit kept
ScaledBy(ratio) ==
    \A i \in 1..Len(ret.val), c \in 1..2 :
        Abs((Fit(i, c) - FitLow(c)) * ratio.den - (Data(i, c) - DataLow(c)) * ratio.num)
            <= ratio.den

\* the bounding box touches the rectangle on the limiting axis and is
\* centred on the other one, to the last digit kept
TouchesAndCentred ==
    /\ WidthLimits =>
          /\ FitLow(1) = Sides.left /\ FitHigh(1) = Sides.left + DrawableWidth
          /\ Abs((FitLow(2) - Sides.bottom)
                    - (Sides.bottom + DrawableHeight - FitHigh(2))) <= 1
    /\ ~WidthLimits =>
          /\ FitLow(2) = Sides.bottom /\ FitHigh(2) = Sides.bottom + DrawableHeight
          /\ Abs((FitLow(1) - Sides.left)
                    - (Sides.left + DrawableWidth - FitHigh(1))) <= 1

\* C23: Canvas.fit with keep_aspect_ratio=True puts every coordinate inside
\* the drawable rectangle and, for data with an extent on both axes, scales
\* both axes by the smaller of drawable width / data width and drawable
\* height / data height and centres the result, so that the bounding box
\* touches the rectangle on the limiting axis.
C23_FitKeepsAspectRatio ==
    (Fitted /\ call.keep_aspect_ratio) =>
        /\ Len(ret.val) = Len(call.arg)
        /\ \A i \in 1..Len(ret.val) : ret.val[i].k = call.arg[i].k
        /\ InsideDrawable
        /\ HasExtent => (ScaledBy(SmallerRatio) /\ TouchesAndCentred)

\* the square with corners (-1,-1), (1,1) on a 6 x 4 canvas with margin 0
\* is fitted to the corners (1,0), (5,4)
C23_Witness ==
    /\ Fitted
    /\ call.keep_aspect_ratio
    /\ self.width = 60000 /\ self.height = 40000 /\ self.margins = PyInt(0)
    /\ call.arg = Square
    /\ ret.val = <<[k |-> "a", v |-> PyTuple(<<PyFloat(10000), PyFloat(0)>>)],
                   [k |-> "b", v |-> PyTuple(<<PyFloat(50000), PyFloat(0)>>)],
                   [k |-> "c", v |-> PyTuple(<<PyFloat(50000), PyFloat(40000)>>)],
                   [k |-> "d", v |-> PyTuple(<<PyFloat(10000), PyFloat(40000)>>)]>>


\* margins() was called
MarginsCalled == call.op = "margins"

\* the same margin on all four sides
Uniform(x) == [top |-> x, bottom |-> x, left |-> x, right |-> x]

\* the automatic margin: half the largest node size, 0.35 without node sizes
AutoMargin ==
    IF self.node_sizes = None \/ self.node_sizes.items = <<>> THEN 3500
    ELSE Max({Tenthousandths(self.node_sizes.items[i])
                 : i \in 1..Len(self.node_sizes.items)}) \div 2

\* the side of a mapping, 0 when the mapping does not have it
SideOf(m, name) ==
    IF \E j \in 1..Len(m.keys) : m.keys[j] = name
    THEN Tenthousandths(m.items[CHOOSE j \in 1..Len(m.keys) : m.keys[j] = name])
    ELSE 0

\* the four sides an accepted input stands for
AcceptedMargins == self.margins = None \/ IsNumber(self.margins) \/ self.margins.t = "dict"
FourSides ==
    IF self.margins = None THEN Uniform(AutoMargin)
    ELSE IF IsNumber(self.margins) THEN Uniform(Tenthousandths(self.margins))
    ELSE [top |-> SideOf(self.margins, "top"), bottom |-> SideOf(self.margins, "bottom"),
          left |-> SideOf(self.margins, "left"), right |-> SideOf(self.margins, "right")]

\* the margins leave a positive drawable width and height
LeavesArea ==
    /\ self.width - FourSides.left - FourSides.right > 0
    /\ self.height - FourSides.top - FourSides.bottom > 0

\* C24: Canvas.margins returns exactly the four sides top, bottom, left and
\* right for an accepted input (None: the automatic margin, a number: that
\* number on every side, a mapping: its sides and 0 for a missing one), and
\* raises the configuration error for an unsupported shape and for margins
\* that leave no positive drawable width or height.
C24_MarginsFourSidesOrError ==
    MarginsCalled =>
        IF AcceptedMargins /\ LeavesArea
        THEN /\ ret.exc = "none"
             /\ DOMAIN ret.val = {"top", "bottom", "left", "right"}
             /\ ret.val = FourSides
        ELSE ret.exc = "CnetError"

\* a uniform margin of 3 on the default 6 x 6 canvas is rejected
C24_Witness ==
    /\ MarginsCalled
    /\ self.width = 60000 /\ self.height = 60000
    /\ self.margins = PyInt(3)
    /\ ret.exc = "CnetError"


----------------------------------------------------------------------------
(* Properties of the ingestion of the network (SpecIngest) *)

\* the constructor has run
Constructed == pc \in {"drawn", "failed"}
\* the layout keyword of the request
LayoutKeyword == DictGetDefault(self.attributes, "layout", None)
\* the edges of the network under their keys
EdgesOf(net) ==
    [i \in 1..Len(net.edges) |->
        [k |-> EdgeKey(net.kind, net.edges, i), v |-> <<net.edges[i].u, net.edges[i].v>>]]

\* C25: the constructor succeeds on a pathpy network and holds its nodes and
\* edges whether the layout keyword is a coordinate mapping, unset or the
\* name of a layout (here the random layout, which needs no adjacency
\* matrix)
C25_PathpyIngested ==
    (/\ Constructed
     /\ self.network.kind = "pathpy"
     /\ LayoutKeyword \in {None, Coordinates, PyStr("random")}) =>
        /\ self.exc = "none"
        /\ self.nodes = self.network.nodes
        /\ self.edges = EdgesOf(self.network)


\* the request names the Fruchterman-Reingold layout
AsksForceDirected == LayoutKeyword.t = "str" /\ LayoutKeyword.s \in names_fr
\* the node ids that have a coordinate, in the order of the layout
Placed == [i \in 1..Len(self.layout) |-> self.layout[i].k]

\* C26: for a network of every supported kind, a request whose layout is a
\* Fruchterman-Reingold alias sets the adjacency matrix of the drawer and
\* ends with exactly one coordinate per node
C26_AdjacencyHandedToEngine ==
    (/\ Constructed
     /\ self.network.kind \in {"cnet", "networkx", "igraph", "pathpy", "tuple"}
     /\ AsksForceDirected) =>
        /\ self.adjacency_matrix # NoMatrix
        /\ self.exc = "none"
        /\ Len(Placed) = Len(self.nodes)
        /\ \A i \in 1..Len(self.nodes) :
              Cardinality({j \in 1..Len(Placed) : Placed[j] = self.nodes[i]}) = 1

\* C30: the constructor fails with CnetNotImplemented on a network of no
\* supported kind, and builds no node or edge record
C30_UnsupportedKindRejected ==
    (Constructed /\ self.network.kind = "other") =>
        /\ self.exc = "CnetNotImplemented"
        /\ self.node_drawer = <<>>
        /\ self.edge_drawer = <<>>


----------------------------------------------------------------------------
(* Properties of the files a plot writes (SpecEmit) *)

\* the plot was saved as csv files, and not saved before
SavedCsv == pc = "saved" /\ call.op = "save_csv"
\* the number of comma-separated fields of string r of file f
FieldCount(f, r) == Len(ret.val[f].content[r])

\* C27: in each csv file every data row has as many comma-separated fields
\* as the header, which head() of the first entity made
C27_RowsMatchHeader ==
    SavedCsv =>
        \A f \in 1..Len(ret.val) :
            \A r \in 1..Len(ret.val[f].content) : FieldCount(f, r) = FieldCount(f, 1)

\* the plot was saved as tex twice, or as tex and then as pdf, and no call
\* raised
SavedTexTwice ==
    /\ pc = "resaved"
    /\ call.op \in {"save_tex", "save_pdf"}
    /\ call.before.op = "save_tex"
    /\ call.before.exc = "none"
    /\ ret.exc = "none"

\* C28: the markup of the second save is the markup of the first
C28_SameMarkupTwice ==
    SavedTexTwice => ret.val[Len(ret.val)].content = call.before.files[1].content

\* C29: after save_pdf, whether it returned or raised, the working
\* directory of the process is the one before the call
C29_WorkingDirectoryRestored ==
    call.op = "save_pdf" => env.fs.cwd = call.cwd

====
